---------------------------- MODULE Spec2Model ----------------------------
(***************************************************************************)
(* State-machine model of the three-level Redis cache of the RAG service   *)
(* (src/caching_layer.py, class RAGCacheManagerOptimized) and of the query *)
(* handler that uses it (src/mcp_server/rag_server.py).                    *)
(*                                                                         *)
(* Modelling conventions                                                   *)
(*  - Python values are records with a "type" field; Python None is None.  *)
(*  - A Python bytes object is a sequence of parts: a single byte          *)
(*    [k |-> "byte", v |-> n] or an opaque blob produced by one library    *)
(*    codec (msgpack, lz4 frame, json, pickle).  Blob sizes are given by   *)
(*    PackedLen / Lz4Len; a blob that lost its first byte is "junk",       *)
(*    which no decoder accepts.                                            *)
(*  - An operation that can raise returns [exc |-> TRUE] instead of a      *)
(*    value; try/except blocks are modelled where the code has them.       *)
(*  - Every handler is one atomic action; the backend mode is constant     *)
(*    while a handler runs.  Mode "flaky" is a transient fault: the first  *)
(*    attempt of every backend call times out, a re-attempt succeeds.      *)
(*    SpecRace alone splits two handlers into their Redis commands.        *)
(*  - stats['compression_bytes_saved'] and the latency average are left    *)
(*    out; total_operations is kept.                                       *)
(***************************************************************************)
EXTENDS Naturals, Integers, Sequences, FiniteSets, TLC

VARIABLES
    backend,             \* reachability of the Redis server: "up", "flaky", "down"
    redis,               \* self.redis is not None
    enable_adaptive_ttl, \* constructor argument
    db,                  \* the Redis keyspace: key -> [data, expire_at]
    stats,               \* self.stats
    now,                 \* wall clock, seconds
    ops,                 \* number of calls made so far (bounded)
    last,                \* the last call and what its caller observed
    written,             \* history: key -> the put that wrote the live entry
    calls,               \* history: level -> number of get calls
    returned,            \* history: level -> number of get calls that returned a value
    collection,          \* the ChromaDB collection the indexer reads
    indexer,             \* BM25Indexer: bm25_index, documents, metadatas, doc_ids
    index_file,          \* bm25_index.pkl on disk, None when it does not exist
    logged,              \* warnings the last call wrote to the log
    inputs,              \* the arguments the caller of a pure operation holds
    previous,            \* history: the call before last, when it had the same arguments
    procs                \* concurrent requests: position and local variables of each

\* the state of the keyword index and of the fusion engine
fusion == <<inputs, previous>>

hybrid == <<collection, indexer, index_file, logged, fusion, procs>>

vars == <<backend, redis, enable_adaptive_ttl, db, stats, now, ops, last,
          written, calls, returned, hybrid>>

----------------------------------------------------------------------------
(* Bounds of the model *)

MaxOps == 2

----------------------------------------------------------------------------
(* Program constants *)

embedding_ttl == 3600
retrieval_ttl == 21600
response_ttl == 86400
compression_threshold == 512
retry_attempts == 3
access_window == 86400
HAS_MSGPACK == TRUE
HAS_LZ4 == TRUE

Levels == {"embedding", "retrieval", "response"}

BaseTtl(level) ==
    CASE level = "embedding" -> embedding_ttl
      [] level = "retrieval" -> retrieval_ttl
      [] level = "response"  -> response_ttl

----------------------------------------------------------------------------
(* Python values *)

None == [type |-> "None"]

\* a numpy vector; "data" names the raw numeric content
Vec(id) == [type |-> "ndarray", data |-> id, dtype |-> "float32", shape |-> 384]

\* a value msgpack and json both refuse (for instance a set)
Unpackable == [type |-> "set"]

\* Optional[str] arguments: NoFilter stands for Python None
NoFilter == "<None>"

Truthy(s) == s # NoFilter /\ s # ""

Min(a, b) == IF a < b THEN a ELSE b

Max(a, b) == IF a > b THEN a ELSE b

----------------------------------------------------------------------------
(* Sizes of encoded payloads.  The byte counts are data of the inputs:     *)
(* the vectors are chosen so that the encodings fall on both sides of the  *)
(* compression threshold and of the "compresses smaller" test.             *)

VecPacked(id) ==
    CASE id = "edge"  -> 512
      [] id = "text"  -> 513
      [] id = "noise" -> 3496
      [] OTHER        -> 3496

VecLz4(id) ==
    CASE id = "edge"  -> 300
      [] id = "text"  -> 300
      [] id = "noise" -> 3496
      [] OTHER        -> 2800

\* msgpack.packb output size of a packed object
PackedLen(obj) ==
    CASE obj.type = "dict" /\ "_numpy" \in DOMAIN obj -> VecPacked(obj.data)
      [] obj.type = "dict" /\ "documents" \in DOMAIN obj -> 60 + 300 * Len(obj.documents)
      [] OTHER -> 40

\* lz4.frame.compress output size for the msgpack encoding of obj
Lz4Len(obj) ==
    CASE obj.type = "dict" /\ "_numpy" \in DOMAIN obj -> VecLz4(obj.data)
      [] obj.type = "dict" /\ "documents" \in DOMAIN obj ->
            IF Len(obj.documents) >= 2 THEN 19 + 200 * Len(obj.documents)
            ELSE 79 + 300 * Len(obj.documents)
      [] OTHER -> 59

----------------------------------------------------------------------------
(* Bytes *)

Byte(n) == [k |-> "byte", v |-> n]

PartLen(p) ==
    CASE p.k = "byte"    -> 1
      [] p.k = "msgpack" -> PackedLen(p.obj)
      [] p.k = "lz4"     -> Lz4Len(p.raw[1].obj)
      [] OTHER           -> 40

RECURSIVE BytesLen(_)
BytesLen(data) ==
    IF data = <<>> THEN 0 ELSE PartLen(Head(data)) + BytesLen(Tail(data))

\* data[0]
FirstByte(data) ==
    LET p == Head(data) IN
    CASE p.k = "byte"    -> p.v
      [] p.k = "msgpack" -> 132
      [] p.k = "lz4"     -> 4
      [] p.k = "json"    -> 123
      [] p.k = "pickle"  -> 128
      [] OTHER           -> 255

\* data[1:]
DropFirst(data) ==
    IF Head(data).k = "byte" THEN Tail(data)
    ELSE <<[k |-> "junk"]>> \o Tail(data)

----------------------------------------------------------------------------
(* Codec: _serialize, _deserialize, _compress, _decompress, json *)

Raise == [exc |-> TRUE]

Return(v) == [exc |-> FALSE, val |-> v]

\* msgpack.packb raises TypeError on a type it does not know
Packable(v) == v.type \in {"dict", "ndarray", "None"}

_serialize(v) ==
    IF HAS_MSGPACK
    THEN LET obj == IF v.type = "ndarray"
                    THEN [type |-> "dict", _numpy |-> TRUE, data |-> v.data,
                          dtype |-> v.dtype, shape |-> v.shape]
                    ELSE v
         IN IF Packable(v) THEN Return(<<[k |-> "msgpack", obj |-> obj]>>) ELSE Raise
    ELSE Return(<<[k |-> "pickle", obj |-> v]>>)

\* mutant of _deserialize: an unpacker that returns an object for any bytes
Mutant_deserialize(data) ==
    IF Len(data) = 1 /\ data[1].k = "msgpack"
    THEN LET obj == data[1].obj IN
         IF obj.type = "dict" /\ "_numpy" \in DOMAIN obj /\ obj._numpy
         THEN Return([type |-> "ndarray", data |-> obj.data,
                      dtype |-> obj.dtype, shape |-> obj.shape])
         ELSE Return(obj)
    ELSE Return([type |-> "dict"])

_deserialize(data) ==
    IF HAS_MSGPACK
    THEN IF Len(data) = 1 /\ data[1].k = "msgpack"
         THEN LET obj == data[1].obj IN
              IF obj.type = "dict" /\ "_numpy" \in DOMAIN obj /\ obj._numpy
              THEN Return([type |-> "ndarray", data |-> obj.data,
                           dtype |-> obj.dtype, shape |-> obj.shape])
              ELSE Return(obj)
         ELSE Raise
    ELSE IF Len(data) = 1 /\ data[1].k = "pickle"
         THEN Return(data[1].obj)
         ELSE Raise

\* lz4.frame.compress
Lz4Compress(data) == <<[k |-> "lz4", raw |-> data]>>

\* (data, was_compressed); data is always one msgpack blob here
_compress(data) ==
    IF HAS_LZ4 /\ BytesLen(data) > compression_threshold
    THEN LET compressed == Lz4Compress(data) IN
         IF BytesLen(compressed) < BytesLen(data)
         THEN [data |-> compressed, was_compressed |-> TRUE]
         ELSE [data |-> data, was_compressed |-> FALSE]
    ELSE [data |-> data, was_compressed |-> FALSE]

\* mutant of _decompress: the flag is ignored and the bytes are passed on
Mutant_decompress(data, was_compressed) == Return(data)

\* lz4.frame.decompress raises on anything that is not an lz4 frame
_decompress(data, was_compressed) ==
    IF was_compressed /\ HAS_LZ4
    THEN IF Len(data) = 1 /\ data[1].k = "lz4" THEN Return(data[1].raw) ELSE Raise
    ELSE Return(data)

\* json.dumps raises TypeError on ndarray and on set
JsonDumps(v) ==
    IF v.type \in {"dict", "None"} THEN Return(<<[k |-> "json", obj |-> v]>>) ELSE Raise

JsonLoads(data) ==
    IF Len(data) = 1 /\ data[1].k = "json" THEN Return(data[1].obj) ELSE Raise

\* bytes([1 if was_compressed else 0]) + compressed
Flagged(c) == <<Byte(IF c.was_compressed THEN 1 ELSE 0)>> \o c.data

\* lines 286-293 and 367-369: strip the flag byte, decompress, deserialize
DecodeFlagged(cached) ==
    LET was_compressed == FirstByte(cached) = 1
        plain == _decompress(DropFirst(cached), was_compressed)
    IN IF plain.exc THEN Raise ELSE _deserialize(plain.val)

Decode(level, cached) ==
    IF level = "response" THEN JsonLoads(cached) ELSE DecodeFlagged(cached)

\* the bytes a put stores for value v, or an exception
Encode(level, v) ==
    IF level = "response" THEN JsonDumps(v)
    ELSE LET s == _serialize(v) IN
         IF s.exc THEN Raise ELSE Return(Flagged(_compress(s.val)))

----------------------------------------------------------------------------
(* Cache keys *)

\* hashlib.md5(...).hexdigest(): a digest, here injective on the inputs used
_hash_query(query) == "md5(" \o query \o ")"

_hash_embedding(embedding) == "md5[" \o embedding.data \o "]"

EmbKey(query) == "emb:" \o _hash_query(query)

RetKey(embedding, technology_filter) ==
    LET filter_suffix == IF Truthy(technology_filter)
                         THEN ":" \o technology_filter ELSE ":none"
    IN "ret:" \o _hash_embedding(embedding) \o filter_suffix

RespKey(query, technology_filter, top_k) ==
    LET filter_part == IF Truthy(technology_filter) THEN technology_filter ELSE "none"
    IN "resp:" \o _hash_query(query) \o ":" \o filter_part \o ":" \o ToString(top_k)

\* a request is <<level, ...arguments>>
KeyOf(req) ==
    CASE req[1] = "embedding" -> EmbKey(req[2])
      [] req[1] = "retrieval" -> RetKey(req[2], req[3])
      [] req[1] = "response"  -> RespKey(req[2], req[3], req[4])

AccessKey(key) == "access_count:" \o key

\* Redis glob "prefix*"
HasPrefix(key, prefix) ==
    Len(key) >= Len(prefix) /\ SubSeq(key, 1, Len(prefix)) = prefix

----------------------------------------------------------------------------
(* Redis commands against the keyspace d (entries past their expiry are    *)
(* removed by Tick, so every entry of d is live)                           *)

\* number of consecutive failed attempts a backend call meets
Failures ==
    CASE backend = "up"    -> 0
      [] backend = "flaky" -> 1
      [] backend = "down"  -> retry_attempts

\* a call made once, without _retry_operation
DirectOk == Failures = 0

\* _retry_operation: attempts made, and whether one succeeded
_retry_operation ==
    IF Failures < retry_attempts
    THEN [ok |-> TRUE, attempts |-> Failures + 1]
    ELSE [ok |-> FALSE, attempts |-> retry_attempts]

RedisGet(d, key) == IF key \in DOMAIN d THEN d[key].data ELSE <<>>

\* a variant that writes the value and leaves the expiry of a key that
\* exists as it is
MutantRedisSetex(d, key, ttl, data) ==
    [k \in DOMAIN d \cup {key} |->
        IF k = key
        THEN [data |-> data,
              expire_at |-> IF key \in DOMAIN d THEN d[key].expire_at ELSE now + ttl]
        ELSE d[k]]

RedisSetex(d, key, ttl, data) ==
    [k \in DOMAIN d \cup {key} |->
        IF k = key THEN [data |-> data, expire_at |-> now + ttl] ELSE d[k]]

RedisKeys(d, prefix) == {k \in DOMAIN d : HasPrefix(k, prefix)}

RedisDelete(d, keys) == [k \in DOMAIN d \ keys |-> d[k]]

\* GET of a counter, as an integer (0 when the key is absent)
CounterOf(d, akey) ==
    IF akey \in DOMAIN d /\ d[akey].data[1].k = "int" THEN d[akey].data[1].v ELSE 0

----------------------------------------------------------------------------
(* The cache manager.  A handler maps the manager's view m = [db, stats,   *)
(* written, calls, returned] to the view after the call plus the value the *)
(* caller receives (ret).  written, calls and returned are history kept    *)
(* for the properties; the code does not read them.                        *)

\* a variant that asks the server at every call
Mutant_is_cache_available == backend # "down"

_is_cache_available == redis

Bump(s, field) == [s EXCEPT ![field] = @ + 1]

\* the view o together with the value handed to the caller
WithRet(o, v) ==
    [db |-> o.db, stats |-> o.stats, written |-> o.written, calls |-> o.calls,
     returned |-> o.returned, ret |-> v]

\* the view o and whether the call raised to its caller
WithRaised(o, v, r) ==
    [db |-> o.db, stats |-> o.stats, written |-> o.written, calls |-> o.calls,
     returned |-> o.returned, ret |-> v, raised |-> r]

Restrict(f, S) == [x \in DOMAIN f \cap S |-> f[x]]

\* _update_performance_stats: only the operation count is modelled
_update_performance_stats(s) == Bump(s, "total_operations")

\* mutant of _get_adaptive_ttl: the upper threshold is exclusive
Mutant_get_adaptive_ttl(d, base_ttl, key) ==
    IF ~enable_adaptive_ttl \/ ~_is_cache_available THEN base_ttl
    ELSE IF ~DirectOk THEN base_ttl
    ELSE LET count == CounterOf(d, AccessKey(key)) IN
         IF count > 10 THEN base_ttl * 2
         ELSE IF count >= 5 THEN (base_ttl * 3) \div 2
         ELSE base_ttl

_get_adaptive_ttl(d, base_ttl, key) ==
    IF ~enable_adaptive_ttl \/ ~_is_cache_available THEN base_ttl
    ELSE IF ~DirectOk THEN base_ttl                 \* except Exception
    ELSE LET access_count == RedisGet(d, AccessKey(key)) IN
         IF Len(access_count) > 0
         THEN LET count == CounterOf(d, AccessKey(key)) IN
              IF count >= 10 THEN base_ttl * 2
              ELSE IF count >= 5 THEN (base_ttl * 3) \div 2
              ELSE base_ttl
         ELSE base_ttl

\* a variant that also renews the expiry of the entry that was read
Mutant_record_access(d, key) ==
    IF ~enable_adaptive_ttl \/ ~_is_cache_available THEN d
    ELSE IF ~DirectOk THEN d
    ELSE LET akey == AccessKey(key) IN
         [k \in DOMAIN d \cup {akey} |->
            IF k = akey
            THEN [data |-> <<[k |-> "int", v |-> CounterOf(d, akey) + 1]>>,
                  expire_at |-> now + access_window]
            ELSE IF k = key
            THEN [data |-> d[k].data, expire_at |-> now + access_window]
            ELSE d[k]]

_record_access(d, key) ==
    IF ~enable_adaptive_ttl \/ ~_is_cache_available THEN d
    ELSE IF ~DirectOk THEN d                        \* except Exception: pass
    ELSE LET akey == AccessKey(key) IN
         [k \in DOMAIN d \cup {akey} |->
            IF k = akey
            THEN [data |-> <<[k |-> "int", v |-> CounterOf(d, akey) + 1]>>,
                  expire_at |-> now + access_window]
            ELSE d[k]]

\* the three get_cached_* methods: they differ in the key and in the decoder
GetCached(m, level, key) ==
    LET called == [m EXCEPT !.calls[level] = @ + 1]
        hits   == level \o "_hits"
        misses == level \o "_misses"
        miss   == WithRet([called EXCEPT !.stats = Bump(@, misses)], None)
    IN
    IF ~_is_cache_available THEN WithRet(called, None)
    ELSE IF ~_retry_operation.ok THEN miss          \* except Exception
    ELSE LET cached == RedisGet(m.db, key) IN
         IF Len(cached) > 0
         THEN LET hit == [called EXCEPT !.stats = Bump(@, hits),
                                        !.db = _record_access(@, key)]
                  dec == Decode(level, cached)
              IN IF dec.exc
                 THEN WithRet([hit EXCEPT !.stats = Bump(@, misses)], None)
                 ELSE WithRet([hit EXCEPT !.stats = _update_performance_stats(@),
                                          !.returned[level] = @ + 1], dec.val)
         ELSE miss

\* the three cache_* methods; req is recorded in the history only
CachePut(m, req, value) ==
    LET level == req[1]
        key   == KeyOf(req)
        enc   == Encode(level, value)
    IN
    IF ~_is_cache_available THEN WithRet(m, None)
    ELSE IF enc.exc THEN WithRet(m, None)           \* except Exception
    ELSE LET ttl == _get_adaptive_ttl(m.db, BaseTtl(level), key) IN
         IF ~_retry_operation.ok THEN WithRet(m, None)  \* except Exception
         ELSE [WithRet(m, None) EXCEPT !.db = RedisSetex(@, key, ttl, enc.val),
                        !.stats = _update_performance_stats(@),
                        !.written = [k \in DOMAIN @ \cup {key} |->
                                        IF k = key
                                        THEN [req |-> req, value |-> value,
                                              legacy |-> FALSE]
                                        ELSE @[k]]]

get_cached_embedding(m, query) == GetCached(m, "embedding", EmbKey(query))

get_cached_retrieval(m, embedding, technology_filter) ==
    GetCached(m, "retrieval", RetKey(embedding, technology_filter))

get_cached_response(m, query, technology_filter, top_k) ==
    GetCached(m, "response", RespKey(query, technology_filter, top_k))

cache_embedding(m, query, embedding) == CachePut(m, <<"embedding", query>>, embedding)

cache_retrieval(m, embedding, results, technology_filter) ==
    CachePut(m, <<"retrieval", embedding, technology_filter>>, results)

\* a variant that stores nothing
Mutant_cache_response(m, query, response, technology_filter, top_k) == WithRet(m, None)

cache_response(m, query, response, technology_filter, top_k) ==
    CachePut(m, <<"response", query, technology_filter, top_k>>, response)

\* the loop of cache_batch_embeddings: TRUE when some entry makes it raise
RECURSIVE BatchRaises(_)
BatchRaises(entries) ==
    IF entries = <<>> THEN FALSE
    ELSE _serialize(Head(entries)[2]).exc \/ BatchRaises(Tail(entries))

\* pipe.execute(): the queued SETEX commands, in order
RECURSIVE BatchExecute(_, _, _)
BatchExecute(m, d0, entries) ==
    IF entries = <<>> THEN m
    ELSE LET query == Head(entries)[1]
             embedding == Head(entries)[2]
             key == EmbKey(query)
             data == Flagged(_compress(_serialize(embedding).val))
             ttl == _get_adaptive_ttl(d0, embedding_ttl, key)
             m1 == [m EXCEPT !.db = RedisSetex(@, key, ttl, data),
                             !.written = [k \in DOMAIN @ \cup {key} |->
                                            IF k = key
                                            THEN [req |-> <<"embedding", query>>,
                                                  value |-> embedding,
                                                  legacy |-> FALSE]
                                            ELSE @[k]]]
         IN BatchExecute(m1, d0, Tail(entries))

cache_batch_embeddings(m, queries_embeddings) ==
    IF ~_is_cache_available \/ queries_embeddings = <<>> THEN WithRet(m, None)
    ELSE IF BatchRaises(queries_embeddings) THEN WithRet(m, None)   \* except Exception
    ELSE IF ~DirectOk THEN WithRet(m, None)                         \* except Exception
    ELSE WithRet(BatchExecute(m, m.db, queries_embeddings), None)

\* the glob patterns of clear_cache, as prefixes
Patterns == [embedding |-> "emb:", retrieval |-> "ret:", response |-> "resp:"]

AllPrefixes == {Patterns[l] : l \in DOMAIN Patterns} \cup {"access_count:"}

\* mutant of ClearedKeys: the cache_type argument is ignored
MutantClearedKeys(d, cache_type) == UNION {RedisKeys(d, p) : p \in AllPrefixes}

\* keys deleted by clear_cache(cache_type) when the backend answers
ClearedKeys(d, cache_type) ==
    IF Truthy(cache_type)
    THEN IF cache_type \in DOMAIN Patterns
         THEN RedisKeys(d, Patterns[cache_type])
         ELSE {}
    ELSE UNION {RedisKeys(d, p) : p \in AllPrefixes}

\* clear_cache has no try/except and calls redis.keys without retry
clear_cache(m, cache_type) ==
    IF ~_is_cache_available THEN WithRaised(m, None, FALSE)
    ELSE IF Truthy(cache_type) /\ cache_type \notin DOMAIN Patterns
         THEN WithRaised(m, None, FALSE)
    ELSE IF ~DirectOk THEN WithRaised(m, None, TRUE)
    ELSE LET d1 == RedisDelete(m.db, ClearedKeys(m.db, cache_type)) IN
         WithRaised([m EXCEPT !.db = d1, !.written = Restrict(@, DOMAIN d1)],
                    None, FALSE)

get_cache_size(m) ==
    IF ~_is_cache_available
    THEN WithRaised(m, [type |-> "dict", embedding |-> 0, retrieval |-> 0,
                        response |-> 0], FALSE)
    ELSE IF ~DirectOk THEN WithRaised(m, None, TRUE)
    ELSE WithRaised(m, [type |-> "dict",
                        embedding |-> Cardinality(RedisKeys(m.db, "emb:")),
                        retrieval |-> Cardinality(RedisKeys(m.db, "ret:")),
                        response  |-> Cardinality(RedisKeys(m.db, "resp:"))], FALSE)

LevelReport(s, level) ==
    [hits   |-> s[level \o "_hits"],
     misses |-> s[level \o "_misses"],
     total  |-> s[level \o "_hits"] + s[level \o "_misses"]]

get_cache_stats(m) ==
    WithRet(m, [type |-> "dict",
                embedding_cache |-> LevelReport(m.stats, "embedding"),
                retrieval_cache |-> LevelReport(m.stats, "retrieval"),
                response_cache  |-> LevelReport(m.stats, "response"),
                total_operations |-> m.stats.total_operations])

\* caching_layer_original.py, cache_embedding / cache_retrieval of the earlier
\* manager, which shares the keyspace: pickle bytes, no flag byte, base TTL
LegacySetex(m, req, value) ==
    LET key == KeyOf(req) IN
    [m EXCEPT !.db = RedisSetex(@, key, BaseTtl(req[1]), <<[k |-> "pickle", obj |-> value]>>),
              !.written = [k \in DOMAIN @ \cup {key} |->
                              IF k = key
                              THEN [req |-> req, value |-> value, legacy |-> TRUE]
                              ELSE @[k]]]

----------------------------------------------------------------------------
(* The vector store and the embedding model (external, unchanging) *)

Corpus ==
    <<[content |-> "doc A", technology |-> "React Docs"],
      [content |-> "doc B", technology |-> "Python Docs"],
      [content |-> "doc C", technology |-> "React Docs"]>>

\* model.encode(query)
ModelEncode(query) == Vec("enc " \o query)

\* documents by increasing distance from the embedding
Ranking(embedding) ==
    IF embedding.data = "enc q1" THEN <<1, 2, 3>> ELSE <<3, 2, 1>>

RECURSIVE Position(_, _)
Position(seq, x) == IF Head(seq) = x THEN 1 ELSE 1 + Position(Tail(seq), x)

\* distance in units of 1/10000
Distance(embedding, i) == 1000 * Position(Ranking(embedding), i)

\* collection.query(query_embeddings, n_results, where, include); the single
\* query's row of each returned array
CollectionQuery(embedding, n_results, technology_filter) ==
    LET Pass(i) == ~Truthy(technology_filter)
                   \/ Corpus[i].technology = technology_filter
        hits == SelectSeq(Ranking(embedding), Pass)
        top  == SubSeq(hits, 1, Min(n_results, Len(hits)))
    IN [type |-> "dict",
        documents |-> [j \in 1..Len(top) |-> Corpus[top[j]].content],
        metadatas |-> [j \in 1..Len(top) |-> [technology |-> Corpus[top[j]].technology]],
        distances |-> [j \in 1..Len(top) |-> Distance(embedding, top[j])]]

\* lines 219-239 of rag_server.py
FormatResults(query, technology_filter, results) ==
    [type |-> "dict",
     query |-> query,
     collection |-> "coding_knowledge",
     technology_filter |-> technology_filter,
     results |-> [i \in 1..Len(results.documents) |->
                    [rank |-> i,
                     content |-> results.documents[i],
                     technology |-> results.metadatas[i].technology,
                     similarity_score |-> 10000 - results.distances[i],
                     distance |-> results.distances[i]]],
     total_found |-> Len(results.documents)]

\* what the handler returns when no cache manager exists
Cacheless(query, top_k, technology_filter) ==
    LET k == Min(Max(top_k, 1), 20) IN
    FormatResults(query, technology_filter,
                  CollectionQuery(ModelEncode(query), k, technology_filter))

\* one call the handler makes, and what came of it: "hit", "miss" or "done"
Event(call, result) == [call |-> call, result |-> result]

HitOrMiss(ret) == IF ret # None THEN "hit" ELSE "miss"

\* a variant that computes the embedding before it looks into the embedding
\* cache, and stores it on a miss
Mutant_query_knowledge_base(m, query, top_k0, technology_filter) ==
    IF query = ""
    THEN [trace |-> <<>>]
         @@ WithRet(m, [type |-> "dict", error |-> "Query cannot be empty"])
    ELSE
    LET top_k == Min(Max(top_k0, 1), 20)
        r3 == get_cached_response(m, query, technology_filter, top_k)
    IN
    IF r3.ret # None
    THEN [trace |-> <<Event("get_cached_response", "hit")>>]
         @@ WithRet(r3, [cache_hit |-> "response_cache"] @@ r3.ret)
    ELSE
    LET e1 == get_cached_embedding(r3, query)
        query_embedding == IF e1.ret # None THEN e1.ret ELSE ModelEncode(query)
        m1 == IF e1.ret # None THEN e1 ELSE cache_embedding(e1, query, query_embedding)
        r2 == get_cached_retrieval(m1, query_embedding, technology_filter)
        results == IF r2.ret # None THEN r2.ret
                   ELSE CollectionQuery(query_embedding, top_k, technology_filter)
        m2 == IF r2.ret # None THEN r2
              ELSE cache_retrieval(r2, query_embedding, results, technology_filter)
        formatted_results == FormatResults(query, technology_filter, results)
        m3 == cache_response(m2, query, formatted_results, technology_filter, top_k)
        trace ==
            <<Event("get_cached_response", "miss"), Event("get_collection", "done"),
              Event("model.encode", "done"),
              Event("get_cached_embedding", HitOrMiss(e1.ret))>>
            \o (IF e1.ret # None THEN <<>> ELSE <<Event("cache_embedding", "done")>>)
            \o <<Event("get_cached_retrieval", HitOrMiss(r2.ret))>>
            \o (IF r2.ret # None THEN <<>>
                ELSE <<Event("collection.query", "done"), Event("cache_retrieval", "done")>>)
            \o <<Event("format", "done"), Event("cache_response", "done")>>
    IN [trace |-> trace] @@ WithRet(m3, formatted_results)

\* query_knowledge_base, lines 148-250; trace lists the calls to the cache
\* manager, the embedding model and the vector store in the order the
\* handler makes them
query_knowledge_base(m, query, top_k0, technology_filter) ==
    IF query = ""
    THEN [trace |-> <<>>]
         @@ WithRet(m, [type |-> "dict", error |-> "Query cannot be empty"])
    ELSE
    LET top_k == Min(Max(top_k0, 1), 20)
        r3 == get_cached_response(m, query, technology_filter, top_k)
    IN
    IF r3.ret # None
    THEN [trace |-> <<Event("get_cached_response", "hit")>>]
         @@ WithRet(r3, [cache_hit |-> "response_cache"] @@ r3.ret)
    ELSE
    LET e1 == get_cached_embedding(r3, query)
        query_embedding == IF e1.ret # None THEN e1.ret ELSE ModelEncode(query)
        m1 == IF e1.ret # None THEN e1 ELSE cache_embedding(e1, query, query_embedding)
        r2 == get_cached_retrieval(m1, query_embedding, technology_filter)
        results == IF r2.ret # None THEN r2.ret
                   ELSE CollectionQuery(query_embedding, top_k, technology_filter)
        m2 == IF r2.ret # None THEN r2
              ELSE cache_retrieval(r2, query_embedding, results, technology_filter)
        formatted_results == FormatResults(query, technology_filter, results)
        m3 == cache_response(m2, query, formatted_results, technology_filter, top_k)
        trace ==
            <<Event("get_cached_response", "miss"), Event("get_collection", "done"),
              Event("get_cached_embedding", HitOrMiss(e1.ret))>>
            \o (IF e1.ret # None THEN <<>>
                ELSE <<Event("model.encode", "done"), Event("cache_embedding", "done")>>)
            \o <<Event("get_cached_retrieval", HitOrMiss(r2.ret))>>
            \o (IF r2.ret # None THEN <<>>
                ELSE <<Event("collection.query", "done"), Event("cache_retrieval", "done")>>)
            \o <<Event("format", "done"), Event("cache_response", "done")>>
    IN [trace |-> trace] @@ WithRet(m3, formatted_results)

----------------------------------------------------------------------------
(* Keyword index: src/bm25_indexer.py, class BM25Indexer                   *)
(*  - A text is the sequence of its maximal runs of word characters, as    *)
(*    typed; the regular expression of tokenize splits exactly there.      *)
(*  - A metadata dict is a function from its keys; dict.get without a      *)
(*    default gives Python None, written NoFilter as for Optional[str].    *)
(*  - The BM25Okapi object keeps the tokenized corpus it was built from.   *)
(*    Its term weights are those rank_bm25 computes (k1 = 1.5, b = 0.75,   *)
(*    epsilon = 0.25) for the two corpora of the model, in thousandths.    *)

\* str.lower on the words of the model
Lower(w) ==
    CASE w = "React" -> "react"
      [] w = "Hooks" -> "hooks"
      [] OTHER -> w

\* tokenize, lines 32-36: lowercase, split, drop tokens of one or two characters
tokenize(text) ==
    SelectSeq([i \in 1..Len(text) |-> Lower(text[i])], LAMBDA t : Len(t) > 2)

Doc(id, text, metadata) == [id |-> id, text |-> text, metadata |-> metadata]

SmallDocs ==
    << Doc("d1", <<"React", "hooks", "state">>, [technology |-> "React Docs"]),
       Doc("d2", <<"python", "hooks">>, [technology |-> "Python Docs"]) >>

\* d4 has no technology in its metadata; d1 and d5 have the same tokens
FullDocs ==
    SmallDocs \o
    << Doc("d3", <<"react", "react", "state">>, [technology |-> "React Docs"]),
       Doc("d4", <<"rust">>, [source_url |-> "https://doc.rust-lang.org"]),
       Doc("d5", <<"Hooks", "state", "react">>, [technology |-> "Python Docs"]) >>

CollectionStates == {"missing", "empty", "small", "full"}

\* collection.get(include=["documents", "metadatas"]), line 54
CollectionGet(c) ==
    CASE c = "small" -> SmallDocs
      [] c = "full" -> FullDocs
      [] OTHER -> <<>>

TokenizedCorpus(documents) == [i \in 1..Len(documents) |-> tokenize(documents[i])]

\* BM25Okapi(tokenized_corpus), line 68: the average document length divides
\* by the corpus size, so an empty corpus raises ZeroDivisionError
BM25Okapi(tokenized_corpus) ==
    IF Len(tokenized_corpus) = 0 THEN Raise
    ELSE Return([type |-> "BM25Okapi", corpus |-> tokenized_corpus])

\* idf(q) * tf-part(q, doc) for every document of the corpus, in thousandths.
\* In the two-document corpus "hooks" is in every document, so its idf is
\* negative and replaced by epsilon times the (negative) average idf; every
\* other token is in half of the documents and has idf 0.
TermWeight(corpus, q) ==
    IF corpus = TokenizedCorpus([i \in 1..2 |-> SmallDocs[i].text])
    THEN CASE q = "hooks" -> <<-92, -111>>
           [] OTHER -> <<0, 0>>
    ELSE IF corpus = TokenizedCorpus([i \in 1..5 |-> FullDocs[i].text])
    THEN CASE q = "hooks"  -> <<53, 64, 0, 0, 53>>
           [] q = "python" -> <<0, 1188, 0, 0, 0>>
           [] q = "react"  -> <<53, 0, 79, 0, 53>>
           [] q = "rust"   -> <<0, 0, 0, 1490, 0>>
           [] q = "state"  -> <<53, 0, 53, 0, 53>>
           [] OTHER -> <<0, 0, 0, 0, 0>>
    ELSE [i \in 1..Len(corpus) |-> 0]

RECURSIVE SumWeights(_, _, _)
SumWeights(corpus, query, i) ==
    IF query = <<>> THEN 0
    ELSE TermWeight(corpus, Head(query))[i] + SumWeights(corpus, Tail(query), i)

\* bm25_index.get_scores(tokenized_query), line 124: one score per document
\* of the corpus the index was built from
get_scores(bm25_index, tokenized_query) ==
    [i \in 1..Len(bm25_index.corpus) |->
        SumWeights(bm25_index.corpus, tokenized_query, i)]

\* dict.get(key, default)
DictGet(d, key, default) == IF key \in DOMAIN d THEN d[key] ELSE default

\* list.sort(key = bm25_score, reverse = True), line 146: stable
InsertByScore(s, x) ==
    LET n == Cardinality({i \in 1..Len(s) : s[i].bm25_score >= x.bm25_score})
    IN SubSeq(s, 1, n) \o <<x>> \o SubSeq(s, n + 1, Len(s))

RECURSIVE SortByScore(_)
SortByScore(s) ==
    IF s = <<>> THEN <<>>
    ELSE InsertByScore(SortByScore(SubSeq(s, 1, Len(s) - 1)), s[Len(s)])

\* s[:k]
Slice(s, k) ==
    IF k >= 0 THEN SubSeq(s, 1, Min(k, Len(s)))
    ELSE SubSeq(s, 1, Max(Len(s) + k, 0))

Error(t) == [type |-> t]

SearchOutcome(ret, raised, log) == [ret |-> ret, raised |-> raised, log |-> log]

\* lines 136-143
SearchResult(ix, idx, score) ==
    [doc_id |-> ix.doc_ids[idx],
     content |-> ix.documents[idx],
     bm25_score |-> score,
     technology |-> DictGet(ix.metadatas[idx], "technology", "Unknown"),
     source_url |-> DictGet(ix.metadatas[idx], "source_url", ""),
     source_file |-> DictGet(ix.metadatas[idx], "source_file", "")]

\* a variant that filters on the technology shown in the result, where a
\* document without technology metadata reads "Unknown"
MutantMatches(ix, scores, technology_filter) ==
    LET Keep(idx) ==
            /\ scores[idx] > 0
            /\ ~(/\ Truthy(technology_filter)
                 /\ DictGet(ix.metadatas[idx], "technology", "Unknown") # technology_filter)
        kept == SelectSeq([i \in 1..Len(scores) |-> i], Keep)
    IN [j \in 1..Len(kept) |-> SearchResult(ix, kept[j], scores[kept[j]])]

\* the documents the loop of lines 128-143 appends, in index order
Matches(ix, scores, technology_filter) ==
    LET Keep(idx) ==
            /\ scores[idx] > 0
            /\ ~(/\ Truthy(technology_filter)
                 /\ DictGet(ix.metadatas[idx], "technology", NoFilter) # technology_filter)
        kept == SelectSeq([i \in 1..Len(scores) |-> i], Keep)
    IN [j \in 1..Len(kept) |-> SearchResult(ix, kept[j], scores[kept[j]])]

\* a variant that tokenizes before it looks at the index
Mutant_search_unready(ix, query, top_k, technology_filter) ==
    IF tokenize(query) = <<>>
    THEN SearchOutcome(<<>>, FALSE, <<"WARNING: query produced no tokens">>)
    ELSE IF ix.bm25_index = None
    THEN SearchOutcome(Error("ValueError"), TRUE, <<>>)
    ELSE SearchOutcome(
            Slice(SortByScore(Matches(ix, get_scores(ix.bm25_index, tokenize(query)),
                                      technology_filter)), top_k),
            FALSE, <<>>)

\* a variant that applies the technology filter after the truncation to top_k
Mutant_search(ix, query, top_k, technology_filter) ==
    IF ix.bm25_index = None
    THEN SearchOutcome(Error("ValueError"), TRUE, <<>>)
    ELSE
    LET tokenized_query == tokenize(query) IN
    IF tokenized_query = <<>>
    THEN SearchOutcome(<<>>, FALSE, <<"WARNING: query produced no tokens">>)
    ELSE
    LET scores == get_scores(ix.bm25_index, tokenized_query) IN
    IF \E idx \in 1..Len(scores) : scores[idx] > 0 /\ idx > Len(ix.metadatas)
    THEN SearchOutcome(Error("IndexError"), TRUE, <<>>)
    ELSE SearchOutcome(
            SelectSeq(Slice(SortByScore(Matches(ix, scores, NoFilter)), top_k),
                      LAMBDA r : \/ ~Truthy(technology_filter)
                                 \/ r.technology = technology_filter),
            FALSE, <<>>)

\* search, lines 107-147
search(ix, query, top_k, technology_filter) ==
    IF ix.bm25_index = None
    THEN SearchOutcome(Error("ValueError"), TRUE, <<>>)
    ELSE
    LET tokenized_query == tokenize(query) IN
    IF tokenized_query = <<>>
    THEN SearchOutcome(<<>>, FALSE, <<"WARNING: query produced no tokens">>)
    ELSE
    LET scores == get_scores(ix.bm25_index, tokenized_query) IN
    IF \E idx \in 1..Len(scores) : scores[idx] > 0 /\ idx > Len(ix.metadatas)
    THEN SearchOutcome(Error("IndexError"), TRUE, <<>>)
    ELSE SearchOutcome(Slice(SortByScore(Matches(ix, scores, technology_filter)), top_k),
                       FALSE, <<>>)

\* build_index, lines 38-70: the three lists are replaced before the index
\* is built, and the index only when BM25Okapi returns
build_index(ix, c) ==
    IF c = "missing" THEN [ix |-> ix, raised |-> TRUE]
    ELSE
    LET all_data == CollectionGet(c)
        ix1 == [ix EXCEPT
                    !.documents = [i \in 1..Len(all_data) |-> all_data[i].text],
                    !.metadatas = [i \in 1..Len(all_data) |-> all_data[i].metadata],
                    !.doc_ids   = [i \in 1..Len(all_data) |-> all_data[i].id]]
        built == BM25Okapi(TokenizedCorpus(ix1.documents))
    IN IF built.exc THEN [ix |-> ix1, raised |-> TRUE]
       ELSE [ix |-> [ix1 EXCEPT !.bm25_index = built.val], raised |-> FALSE]

\* save_index, lines 72-89: pickles the four attributes as they are
save_index(ix) == ix

\* load_index, lines 91-105: open raises when the file does not exist
load_index(ix, file) ==
    IF file = None THEN [ix |-> ix, raised |-> TRUE]
    ELSE [ix |-> file, raised |-> FALSE]

----------------------------------------------------------------------------
(* Rank fusion: src/rrf_fusion.py, class ReciprocalRankFusion              *)
(*  - A result is a Python dict, a function from its keys.                 *)
(*  - Weights are given in tenths.  A score is an exact fraction: fuse     *)
(*    works on numerators over the denominator total_weight * unit, where  *)
(*    unit is the product of the k + rank of the call, so that every       *)
(*    w / (k + rank) is an integer number of units; floating-point error   *)
(*    is not modelled.                                                     *)
(*  - hash maps a text to a 64-bit integer and is not injective; the model *)
(*    has one pair of different texts with the same hash, "B" and "B'".    *)
(*  - dict.copy gives a new dict; a stored dict remembers in "origin" the  *)
(*    input position it is the same object as, or <<>> when it is a copy.  *)

\* {}
EmptyDict == [x \in {} |-> 0]

\* d[key] = v
DictPut(d, key, v) == [x \in DOMAIN d \cup {key} |-> IF x = key THEN v ELSE d[x]]

\* hash(result["content"]), lines 66 and 78
hash(content) ==
    CASE content = "B'" -> "#B"
      [] OTHER -> "#" \o content

RECURSIVE RankProduct(_, _)
RankProduct(k, n) == IF n = 0 THEN 1 ELSE (k + n) * RankProduct(k, n - 1)

\* lines 51-58: the two weights as numerators over their total
Normalized(semantic_weight, keyword_weight) ==
    LET total_weight == semantic_weight + keyword_weight IN
    IF total_weight > 0
    THEN [semantic |-> semantic_weight, keyword |-> keyword_weight, total |-> total_weight]
    ELSE [semantic |-> 1, keyword |-> 1, total |-> 2]

\* a variant whose ranks start at 0
MutantRrfScore(w, unit, k, rank) == w * (unit \div (k + rank - 1))

\* weight * (1 / (self.k + rank)), lines 67 and 79, in units
RrfScore(w, unit, k, rank) == w * (unit \div (k + rank))

\* a variant that keeps the object it was given
MutantDictCopy(result, origin) == [rec |-> result, origin |-> origin]

\* result.copy(), lines 72 and 84
DictCopy(result, origin) == [rec |-> result, origin |-> <<>>]

\* a variant that takes every record for a new document
MutantIsNew(scores, content_key) == TRUE

\* a key not yet in the scores dict is inserted at its end
IsNew(scores, content_key) == content_key \notin DOMAIN scores

\* the body of the loop of lines 65-74
SemanticStep(st, result, rank, w, unit, k) ==
    LET content_key == hash(result["content"])
        rrf_score == RrfScore(w, unit, k, rank)
        stored == DictCopy(result, <<"semantic", rank>>)
    IN [scores   |-> DictPut(st.scores, content_key,
                             DictGet(st.scores, content_key, 0) + rrf_score),
        order    |-> IF IsNew(st.scores, content_key)
                     THEN Append(st.order, content_key) ELSE st.order,
        doc_data |-> IF content_key \in DOMAIN st.doc_data THEN st.doc_data
                     ELSE DictPut(st.doc_data, content_key,
                            [stored EXCEPT !.rec =
                                DictPut(DictPut(@, "semantic_rank", rank),
                                        "semantic_score",
                                        DictGet(result, "similarity_score",
                                                DictGet(result, "distance", 0)))])]

\* a variant that leaves a record already stored as it is
MutantKeywordStep(st, result, rank, w, unit, k) ==
    LET content_key == hash(result["content"])
        rrf_score == RrfScore(w, unit, k, rank)
        stored == DictCopy(result, <<"keyword", rank>>)
    IN [scores   |-> DictPut(st.scores, content_key,
                             DictGet(st.scores, content_key, 0) + rrf_score),
        order    |-> IF IsNew(st.scores, content_key)
                     THEN Append(st.order, content_key) ELSE st.order,
        doc_data |-> IF content_key \in DOMAIN st.doc_data THEN st.doc_data
                     ELSE DictPut(st.doc_data, content_key,
                            [stored EXCEPT !.rec =
                                DictPut(DictPut(@, "keyword_rank", rank),
                                        "bm25_score", DictGet(result, "bm25_score", 0))])]

\* the body of the loop of lines 77-90
KeywordStep(st, result, rank, w, unit, k) ==
    LET content_key == hash(result["content"])
        rrf_score == RrfScore(w, unit, k, rank)
        stored == DictCopy(result, <<"keyword", rank>>)
        Marked(doc) == DictPut(DictPut(doc, "keyword_rank", rank),
                               "bm25_score", DictGet(result, "bm25_score", 0))
    IN [scores   |-> DictPut(st.scores, content_key,
                             DictGet(st.scores, content_key, 0) + rrf_score),
        order    |-> IF IsNew(st.scores, content_key)
                     THEN Append(st.order, content_key) ELSE st.order,
        doc_data |-> IF content_key \in DOMAIN st.doc_data
                     THEN [st.doc_data EXCEPT ![content_key].rec = Marked(@)]
                     ELSE DictPut(st.doc_data, content_key,
                                  [stored EXCEPT !.rec = Marked(@)])]

RECURSIVE ProcessSemantic(_, _, _, _, _, _)
ProcessSemantic(st, results, rank, w, unit, k) ==
    IF rank > Len(results) THEN st
    ELSE ProcessSemantic(SemanticStep(st, results[rank], rank, w, unit, k),
                         results, rank + 1, w, unit, k)

RECURSIVE ProcessKeyword(_, _, _, _, _, _)
ProcessKeyword(st, results, rank, w, unit, k) ==
    IF rank > Len(results) THEN st
    ELSE ProcessKeyword(KeywordStep(st, results[rank], rank, w, unit, k),
                        results, rank + 1, w, unit, k)


\* a variant of the sort that puts a document before those of equal score
MutantInsertByRrf(s, x, scores) ==
    LET n == Cardinality({i \in 1..Len(s) : scores[s[i]] > scores[x]})
    IN SubSeq(s, 1, n) \o <<x>> \o SubSeq(s, n + 1, Len(s))

\* sorted(scores.items(), key = score, reverse = True), line 94: stable
InsertByRrf(s, x, scores) ==
    LET n == Cardinality({i \in 1..Len(s) : scores[s[i]] >= scores[x]})
    IN SubSeq(s, 1, n) \o <<x>> \o SubSeq(s, n + 1, Len(s))

RECURSIVE SortByRrf(_, _)
SortByRrf(s, scores) ==
    IF s = <<>> THEN <<>>
    ELSE InsertByRrf(SortByRrf(SubSeq(s, 1, Len(s) - 1), scores), s[Len(s)], scores)

RECURSIVE LongDiv(_, _, _, _)
LongDiv(q, r, den, places) ==
    IF places = 0 THEN [q |-> q, r |-> r]
    ELSE LongDiv(q * 10 + (r * 10) \div den, (r * 10) % den, den, places - 1)

\* round(score, 6), line 96, in millionths
Round6(num, den) ==
    LET d == LongDiv(num \div den, num % den, den, 6)
    IN IF 2 * d.r >= den THEN d.q + 1 ELSE d.q

\* lines 95-102
FinalDoc(st, content_key, den) ==
    LET doc == st.doc_data[content_key].rec
        appeared_in ==
            (IF "semantic_rank" \in DOMAIN doc THEN <<"semantic">> ELSE <<>>)
            \o (IF "keyword_rank" \in DOMAIN doc THEN <<"keyword">> ELSE <<>>)
    IN DictPut(DictPut(doc, "rrf_score", Round6(st.scores[content_key], den)),
               "appeared_in", appeared_in)

\* an input list after the call: a record that fuse stored without copying
\* it has received the keys fuse added
After(st, name, results, den) ==
    [i \in 1..Len(results) |->
        IF \E key \in DOMAIN st.doc_data : st.doc_data[key].origin = <<name, i>>
        THEN FinalDoc(st, hash(results[i]["content"]), den)
        ELSE results[i]]

\* fuse, lines 32-106.  ret is the list returned; accumulated is the exact
\* score of each returned record, in units of 1 / den
fuse(semantic_results, keyword_results, semantic_weight, keyword_weight, k) ==
    LET w == Normalized(semantic_weight, keyword_weight)
        unit == RankProduct(k, Max(Len(semantic_results), Len(keyword_results)))
        den == w.total * unit
        st0 == [scores |-> EmptyDict, order |-> <<>>, doc_data |-> EmptyDict]
        st1 == ProcessSemantic(st0, semantic_results, 1, w.semantic, unit, k)
        st2 == ProcessKeyword(st1, keyword_results, 1, w.keyword, unit, k)
        ranked == SortByRrf(st2.order, st2.scores)
    IN [ret |-> [i \in 1..Len(ranked) |-> FinalDoc(st2, ranked[i], den)],
        accumulated |-> [i \in 1..Len(ranked) |-> st2.scores[ranked[i]]],
        den |-> den,
        semantic_results |-> After(st2, "semantic", semantic_results, den),
        keyword_results |-> After(st2, "keyword", keyword_results, den)]

----------------------------------------------------------------------------
(* _retry_operation, lines 253-263 of caching_layer.py, attempt by attempt. *)
(* The operation is given by what its successive invocations do: "ok",     *)
(* "timeout" (redis.TimeoutError), "connection" (redis.ConnectionError) or *)
(* "error" (any other exception).  Sleeps are in milliseconds.             *)

Outcomes == {"ok", "timeout", "connection", "error"}

\* except (redis.TimeoutError, redis.ConnectionError)
Transient == {"timeout", "connection"}

\* time.sleep(0.1 * (attempt + 1)), line 262
Backoff(attempt) == 100 * (attempt + 1)

RetryOutcome(invoked, slept, result, raised) ==
    [invoked |-> invoked, slept |-> slept, result |-> result, raised |-> raised]

\* a variant that catches every exception
RECURSIVE MutantRetryFrom(_, _, _, _)
MutantRetryFrom(operation, attempts, attempt, slept) ==
    IF attempt >= attempts THEN RetryOutcome(attempt, slept, "None", FALSE)
    ELSE LET outcome == operation[attempt + 1] IN
         IF outcome = "ok" THEN RetryOutcome(attempt + 1, slept, "ok", FALSE)
         ELSE IF attempt = attempts - 1
              THEN RetryOutcome(attempt + 1, slept, outcome, TRUE)
              ELSE MutantRetryFrom(operation, attempts, attempt + 1,
                                   Append(slept, Backoff(attempt)))

\* the loop from the iteration numbered attempt on
RECURSIVE RetryFrom(_, _, _, _)
RetryFrom(operation, attempts, attempt, slept) ==
    IF attempt >= attempts THEN RetryOutcome(attempt, slept, "None", FALSE)
    ELSE LET outcome == operation[attempt + 1] IN
         IF outcome = "ok" THEN RetryOutcome(attempt + 1, slept, "ok", FALSE)
         ELSE IF outcome \in Transient
              THEN IF attempt = attempts - 1
                   THEN RetryOutcome(attempt + 1, slept, outcome, TRUE)
                   ELSE RetryFrom(operation, attempts, attempt + 1,
                                  Append(slept, Backoff(attempt)))
              ELSE RetryOutcome(attempt + 1, slept, outcome, TRUE)

\* one call of _retry_operation on a manager configured with attempts
RetryOperation(operation, attempts) == RetryFrom(operation, attempts, 0, <<>>)

----------------------------------------------------------------------------
(* Inputs *)

Queries == {"q1", "q2"}

Filters == {NoFilter, "none", "React Docs"}

TopKs == {1, 2}

EmbValues == {Vec("edge"), Vec("text"), Vec("noise")}

RetValues == {CollectionQuery(ModelEncode("q1"), k, NoFilter) : k \in TopKs}

\* the response a handler would cache under a response request
RespValue(req) == Cacheless(req[2], req[4], req[3])

\* the requests the cache API is driven with, per level
EmbRequests == {<<"embedding", q>> : q \in Queries}

RetRequests == {<<"retrieval", ModelEncode("q1"), f>> : f \in Filters}

RespRequests == {<<"response", "q1", f, k>> : f \in Filters, k \in TopKs}

BatchValues == {Vec("text"), Unpackable}

\* batches of at most two entries, for distinct queries
Batches == {<<>>} \cup {<<<<"q1", a>>>> : a \in BatchValues}
           \cup {<<<<"q1", a>>, <<"q2", b>>>> : a \in BatchValues, b \in BatchValues}

CacheTypes == {NoFilter, "embedding", "retrieval", "response", "all"}

----------------------------------------------------------------------------
(* Actions *)

View == [db |-> db, stats |-> stats, written |-> written, calls |-> calls,
         returned |-> returned]

Commit(o) ==
    /\ db' = o.db
    /\ stats' = o.stats
    /\ written' = o.written
    /\ calls' = o.calls
    /\ returned' = o.returned

Call(op, req, arg, ret, raised) ==
    [op |-> op, req |-> req, arg |-> arg, ret |-> ret, raised |-> raised]

Idle == Call("none", <<>>, None, None, FALSE)

Get(req) ==
    /\ ops < MaxOps
    /\ LET o == GetCached(View, req[1], KeyOf(req)) IN
       /\ Commit(o)
       /\ last' = Call("get", req, None, o.ret, FALSE)
    /\ ops' = ops + 1
    /\ UNCHANGED <<backend, redis, enable_adaptive_ttl, now, hybrid>>

Put(req, value) ==
    /\ ops < MaxOps
    /\ LET o == CachePut(View, req, value) IN
       /\ Commit(o)
       /\ last' = Call("put", req, value, o.ret, FALSE)
    /\ ops' = ops + 1
    /\ UNCHANGED <<backend, redis, enable_adaptive_ttl, now, hybrid>>

BatchPut(entries) ==
    /\ ops < MaxOps
    /\ LET o == cache_batch_embeddings(View, entries) IN
       /\ Commit(o)
       /\ last' = Call("batch", <<>>, entries, o.ret, FALSE)
    /\ ops' = ops + 1
    /\ UNCHANGED <<backend, redis, enable_adaptive_ttl, now, hybrid>>

Clear(cache_type) ==
    /\ ops < MaxOps
    /\ LET o == clear_cache(View, cache_type) IN
       /\ Commit(o)
       /\ last' = Call("clear", <<cache_type>>, None, o.ret, o.raised)
    /\ ops' = ops + 1
    /\ UNCHANGED <<backend, redis, enable_adaptive_ttl, now, hybrid>>

Size ==
    /\ ops < MaxOps
    /\ LET o == get_cache_size(View) IN
       /\ Commit(o)
       /\ last' = Call("size", <<>>, None, o.ret, o.raised)
    /\ ops' = ops + 1
    /\ UNCHANGED <<backend, redis, enable_adaptive_ttl, now, hybrid>>

Stats ==
    /\ ops < MaxOps
    /\ LET o == get_cache_stats(View) IN
       /\ Commit(o)
       /\ last' = Call("stats", <<>>, None, o.ret, FALSE)
    /\ ops' = ops + 1
    /\ UNCHANGED <<backend, redis, enable_adaptive_ttl, now, hybrid>>

Query(query, top_k, technology_filter) ==
    /\ ops < MaxOps
    /\ \E o \in {query_knowledge_base(View, query, top_k, technology_filter)} :
       /\ Commit(o)
       /\ last' = Call("query", <<query, top_k, technology_filter>>, o.trace, o.ret, FALSE)
    /\ ops' = ops + 1
    /\ UNCHANGED <<backend, redis, enable_adaptive_ttl, now, hybrid>>

\* another process still running the earlier manager writes an entry
LegacyPut(req, value) ==
    /\ ops < MaxOps
    /\ backend = "up"
    /\ Commit(LegacySetex(View, req, value))
    /\ last' = Idle
    /\ ops' = ops + 1
    /\ UNCHANGED <<backend, redis, enable_adaptive_ttl, now, hybrid>>

\* the Redis server or the network changes state
BackendChange(mode) ==
    /\ mode # backend
    /\ backend' = mode
    /\ last' = Idle
    /\ UNCHANGED <<redis, enable_adaptive_ttl, db, stats, now, ops, written,
                   calls, returned, hybrid>>

EarliestExpiry == CHOOSE t \in {db[k].expire_at : k \in DOMAIN db} :
                    \A k \in DOMAIN db : t <= db[k].expire_at

\* time passes up to the next expiry; Redis drops the entries that are due
Tick ==
    /\ DOMAIN db # {}
    /\ now' = EarliestExpiry
    /\ db' = Restrict(db, {k \in DOMAIN db : db[k].expire_at > EarliestExpiry})
    /\ written' = Restrict(written, DOMAIN db')
    /\ last' = Idle
    /\ UNCHANGED <<backend, redis, enable_adaptive_ttl, stats, ops, calls, returned,
                   hybrid>>

----------------------------------------------------------------------------
(* Specifications *)

ZeroStats ==
    [embedding_hits |-> 0, embedding_misses |-> 0,
     retrieval_hits |-> 0, retrieval_misses |-> 0,
     response_hits |-> 0, response_misses |-> 0,
     total_operations |-> 0]

EmptyMap == [k \in {} |-> None]

\* BM25Indexer.__init__, lines 25-30 of bm25_indexer.py: no index, empty
\* lists; nothing is on disk and the collection has not been created
NewIndexer == [bm25_index |-> None, documents |-> <<>>, metadatas |-> <<>>,
               doc_ids |-> <<>>]

InitIndexer ==
    /\ collection = "missing"
    /\ indexer = NewIndexer
    /\ index_file = None
    /\ logged = <<>>

\* no caller of fuse
InitFusion ==
    /\ inputs = None
    /\ previous = Idle

\* no request is in progress
NoRequests == procs = <<>>

InitHybrid == InitIndexer /\ InitFusion /\ NoRequests

\* __init__, lines 113-156: ping decides self.redis once
Init ==
    /\ backend \in {"up", "down"}
    /\ redis = (backend = "up")
    /\ enable_adaptive_ttl = TRUE
    /\ db = EmptyMap
    /\ stats = ZeroStats
    /\ now = 0
    /\ ops = 0
    /\ last = Idle
    /\ written = EmptyMap
    /\ calls = [l \in Levels |-> 0]
    /\ returned = [l \in Levels |-> 0]
    /\ InitHybrid

Environment ==
    \/ \E mode \in {"up", "flaky", "down"} : BackendChange(mode)
    \/ Tick

\* the cache manager driven through its public methods
Next ==
    \/ \E req \in EmbRequests : Get(req)
    \/ \E req \in RetRequests : Get(req)
    \/ \E req \in RespRequests : Get(req)
    \/ \E req \in EmbRequests, v \in EmbValues : Put(req, v)
    \/ \E req \in RetRequests, v \in RetValues : Put(req, v)
    \/ \E req \in RespRequests : Put(req, RespValue(req))
    \/ \E entries \in Batches : BatchPut(entries)
    \/ \E cache_type \in CacheTypes : Clear(cache_type)
    \/ Size
    \/ Stats
    \/ \E k \in TopKs, f \in {NoFilter, "React Docs"} : Query("q1", k, f)
    \/ \E req \in EmbRequests, v \in {Vec("text")} : LegacyPut(req, v)
    \/ Environment

Spec == Init /\ [][Next]_vars

\* the query handler driven by requests, over the same cache
NextQuery ==
    \/ \E q \in Queries \cup {""}, k \in TopKs \cup {0}, f \in Filters : Query(q, k, f)
    \/ Environment

SpecQuery == Init /\ [][NextQuery]_vars

\* Adaptive TTL: the keyspace is shared and outlives a manager, so a new
\* manager can find an access counter left by earlier hits on a key
SeedCounts == {4, 5, 9, 10}

TtlEmb == <<"embedding", "q1">>

TtlRet == <<"retrieval", ModelEncode("q1"), NoFilter>>

TtlResp == <<"response", "q1", NoFilter, 1>>

SeededKeys == {KeyOf(TtlEmb), KeyOf(TtlRet), KeyOf(TtlResp)}

CounterEntry(c) ==
    [data |-> <<[k |-> "int", v |-> c]>>, expire_at |-> access_window]

InitTTL ==
    /\ backend \in {"up", "down"}
    /\ redis = (backend = "up")
    /\ enable_adaptive_ttl \in BOOLEAN
    /\ db \in {EmptyMap}
              \cup {[a \in {AccessKey(key)} |-> CounterEntry(c)] :
                        key \in SeededKeys, c \in SeedCounts}
    /\ stats = ZeroStats
    /\ now = 0
    /\ ops = 0
    /\ last = Idle
    /\ written = EmptyMap
    /\ calls = [l \in Levels |-> 0]
    /\ returned = [l \in Levels |-> 0]
    /\ InitHybrid

NextTTL ==
    \/ Put(TtlEmb, Vec("text"))
    \/ Put(TtlRet, CollectionQuery(ModelEncode("q1"), 2, NoFilter))
    \/ Put(TtlResp, RespValue(TtlResp))
    \/ \E req \in {TtlEmb} : Get(req)
    \/ \E req \in {TtlRet} : Get(req)
    \/ \E req \in {TtlResp} : Get(req)
    \/ BatchPut(<<<<"q1", Vec("text")>>>>)
    \/ Environment

SpecTTL == InitTTL /\ [][NextTTL]_vars

----------------------------------------------------------------------------
(* The keyword index driven through its public methods *)

MaxIndexerOps == 3

BmQueries == {<<>>, <<"is", "a">>, <<"React", "hooks">>, <<"rust", "python">>, <<"golang">>}

BmTopKs == {0, 1, 2, 5}

BmFilters == {NoFilter, "", "React Docs", "Python Docs", "Unknown"}

cache == <<backend, redis, enable_adaptive_ttl, db, stats, now, written, calls,
           returned>>

BuildIndex ==
    /\ ops < MaxIndexerOps
    /\ LET o == build_index(indexer, collection) IN
       /\ indexer' = o.ix
       /\ last' = Call("build_index", <<>>, None, None, o.raised)
    /\ logged' = <<>>
    /\ ops' = ops + 1
    /\ UNCHANGED <<cache, procs, collection, index_file, fusion>>

SaveIndex ==
    /\ ops < MaxIndexerOps
    /\ index_file' = save_index(indexer)
    /\ last' = Call("save_index", <<>>, None, None, FALSE)
    /\ logged' = <<>>
    /\ ops' = ops + 1
    /\ UNCHANGED <<cache, procs, collection, indexer, fusion>>

LoadIndex ==
    /\ ops < MaxIndexerOps
    /\ LET o == load_index(indexer, index_file) IN
       /\ indexer' = o.ix
       /\ last' = Call("load_index", <<>>, None, None, o.raised)
    /\ logged' = <<>>
    /\ ops' = ops + 1
    /\ UNCHANGED <<cache, procs, collection, index_file, fusion>>

Search(query, top_k, technology_filter) ==
    /\ ops < MaxIndexerOps
    /\ LET o == search(indexer, query, top_k, technology_filter) IN
       /\ last' = Call("search", <<query, top_k, technology_filter>>, None, o.ret, o.raised)
       /\ logged' = o.log
    /\ ops' = ops + 1
    /\ UNCHANGED <<cache, procs, collection, indexer, index_file, fusion>>

\* ingestion creates, fills or empties the collection
CollectionChange(c) ==
    /\ c # collection
    /\ c # "missing"
    /\ collection' = c
    /\ last' = Idle
    /\ logged' = <<>>
    /\ UNCHANGED <<cache, procs, ops, indexer, index_file, fusion>>

NextBM25 ==
    \/ BuildIndex
    \/ SaveIndex
    \/ LoadIndex
    \/ \E q \in BmQueries, k \in BmTopKs, f \in BmFilters : Search(q, k, f)
    \/ \E c \in CollectionStates : CollectionChange(c)

\* the cache is not used by the indexer: one initial state of it is enough
InitBM25 == Init /\ backend = "up"

SpecBM25 == InitBM25 /\ [][NextBM25]_vars

----------------------------------------------------------------------------
(* The fusion engine called on lists its caller holds *)

MaxResults == 2

MaxFuseCalls == 2

\* results of the vector search: with a similarity score, or with a
\* distance only; two of them have the same text
SemanticRecords ==
    { [content |-> "A", similarity_score |-> 90],
      [content |-> "B", similarity_score |-> 80],
      [content |-> "B", distance |-> 30],
      [content |-> "B'", similarity_score |-> 70] }

\* results of BM25Indexer.search
KeywordRecords ==
    { [content |-> "B", bm25_score |-> 10, doc_id |-> "d1"],
      [content |-> "C", bm25_score |-> 5, doc_id |-> "d2"],
      [content |-> "B", bm25_score |-> 4, doc_id |-> "d3"],
      [content |-> "B'", bm25_score |-> 3, doc_id |-> "d4"] }

\* lists of at most MaxResults different results
ListsOf(S) ==
    UNION {{l \in [1..n -> S] : \A i, j \in 1..n : i # j => l[i] # l[j]} :
             n \in 0..MaxResults}

\* semantic_weight and keyword_weight, in tenths
Weights == {<<6, 4>>, <<0, 0>>, <<10, 0>>}

\* the k of the engine, line 30
Ks == {60}

FuseInputs ==
    [semantic_results : ListsOf(SemanticRecords),
     keyword_results : ListsOf(KeywordRecords),
     weights : Weights,
     k : Ks]

Fuse ==
    /\ ops < MaxFuseCalls
    /\ LET o == fuse(inputs.semantic_results, inputs.keyword_results,
                     inputs.weights[1], inputs.weights[2], inputs.k) IN
       /\ last' = Call("fuse", inputs, [accumulated |-> o.accumulated, den |-> o.den],
                       o.ret, FALSE)
       /\ inputs' = [inputs EXCEPT !.semantic_results = o.semantic_results,
                                   !.keyword_results = o.keyword_results]
    /\ previous' = IF last.op = "fuse" THEN last ELSE Idle
    /\ ops' = ops + 1
    /\ UNCHANGED <<cache, procs, collection, indexer, index_file, logged>>

InitFuse ==
    /\ backend = "up"
    /\ redis = TRUE
    /\ enable_adaptive_ttl = TRUE
    /\ db = EmptyMap
    /\ stats = ZeroStats
    /\ now = 0
    /\ ops = 0
    /\ last = Idle
    /\ written = EmptyMap
    /\ calls = [l \in Levels |-> 0]
    /\ returned = [l \in Levels |-> 0]
    /\ InitIndexer
    /\ inputs \in FuseInputs
    /\ previous = Idle
    /\ NoRequests

NextFuse == Fuse

SpecFuse == InitFuse /\ [][NextFuse]_vars

----------------------------------------------------------------------------
(* One call of _retry_operation, for every behaviour of the operation *)

MaxAttempts == 4

\* what the first MaxAttempts invocations of the operation would do
Operations == [1..MaxAttempts -> Outcomes]

RetryInputs == [operation : Operations, retry_attempts : 0..MaxAttempts]

Retry ==
    /\ ops = 0
    /\ LET o == RetryOperation(inputs.operation, inputs.retry_attempts) IN
       last' = Call("retry", inputs, None, o, o.raised)
    /\ ops' = ops + 1
    /\ UNCHANGED <<cache, procs, collection, indexer, index_file, logged, fusion>>

InitRetry ==
    /\ backend = "up"
    /\ redis = TRUE
    /\ enable_adaptive_ttl = TRUE
    /\ db = EmptyMap
    /\ stats = ZeroStats
    /\ now = 0
    /\ ops = 0
    /\ last = Idle
    /\ written = EmptyMap
    /\ calls = [l \in Levels |-> 0]
    /\ returned = [l \in Levels |-> 0]
    /\ InitIndexer
    /\ inputs \in RetryInputs
    /\ previous = Idle
    /\ NoRequests

NextRetry == Retry

SpecRetry == InitRetry /\ [][NextRetry]_vars

----------------------------------------------------------------------------
(* Entries and counters over time: puts and gets with the clock moving     *)
(* between them                                                            *)

MaxClock == 3600

\* half an hour passes and nothing expires
Advance ==
    /\ now + embedding_ttl \div 2 <= MaxClock
    /\ \A k \in DOMAIN db : db[k].expire_at > now + embedding_ttl \div 2
    /\ now' = now + embedding_ttl \div 2
    /\ last' = Idle
    /\ UNCHANGED <<backend, redis, enable_adaptive_ttl, db, stats, ops, written,
                   calls, returned, hybrid>>

InitLife == InitTTL /\ backend = "up" /\ enable_adaptive_ttl

NextLife ==
    \/ Put(TtlEmb, Vec("text"))
    \/ Put(TtlRet, CollectionQuery(ModelEncode("q1"), 2, NoFilter))
    \/ Put(TtlResp, RespValue(TtlResp))
    \/ \E req \in {TtlEmb} : Get(req)
    \/ \E req \in {TtlRet} : Get(req)
    \/ \E req \in {TtlResp} : Get(req)
    \/ Tick
    \/ Advance

SpecLife == InitLife /\ [][NextLife]_vars

----------------------------------------------------------------------------
(* Concurrent requests on one key.  Each request runs cache_embedding or   *)
(* get_cached_embedding for "q1" in its own thread or server process; no   *)
(* lock is taken, so their Redis commands interleave.  One step is one     *)
(* Redis command together with the local computation that precedes it.     *)
(* Requests keep their own statistics, which are not modelled here.        *)

RaceKey == EmbKey("q1")

Writers == {"w1", "w2"}

Readers == {"r"}

\* the embedding each writer computed for the query
RaceValue(p) == IF p = "w1" THEN Vec("text") ELSE Vec("noise")

\* a request that has not started
NewRequest(p) ==
    [pc |-> "start", value |-> IF p \in Writers THEN RaceValue(p) ELSE None,
     data |-> <<>>, ttl |-> 0, at |-> 0, seq |-> 0, cached |-> <<>>, ret |-> None]

\* number of SETEX commands executed so far
Stored == Cardinality({w \in Writers : procs[w].pc = "done"})

UnchangedByRequests ==
    UNCHANGED <<backend, redis, enable_adaptive_ttl, stats, now, ops, last, written,
                calls, returned, collection, indexer, index_file, logged, fusion>>

\* cache_embedding, lines 322-331: encode the value, then GET the counter
WriterTtl(w) ==
    /\ procs[w].pc = "start"
    /\ procs' = [procs EXCEPT
                    ![w].pc = "setex",
                    ![w].data = Encode("embedding", procs[w].value).val,
                    ![w].ttl = _get_adaptive_ttl(db, embedding_ttl, RaceKey)]
    /\ UNCHANGED db
    /\ UnchangedByRequests

\* cache_embedding, line 334: SETEX key ttl data
WriterSetex(w) ==
    /\ procs[w].pc = "setex"
    /\ db' = RedisSetex(db, RaceKey, procs[w].ttl, procs[w].data)
    /\ procs' = [procs EXCEPT ![w].pc = "done", ![w].at = now,
                              ![w].seq = Stored + 1]
    /\ UnchangedByRequests

\* get_cached_embedding, lines 280-281 and 300-302: GET key
ReaderGet(r) ==
    /\ procs[r].pc = "start"
    /\ LET cached == RedisGet(db, RaceKey) IN
       procs' = [procs EXCEPT ![r].cached = cached,
                              ![r].pc = IF Len(cached) > 0 THEN "record" ELSE "done"]
    /\ UNCHANGED db
    /\ UnchangedByRequests

\* get_cached_embedding, lines 283-299: INCR and EXPIRE of the counter, then
\* decode what GET returned
ReaderRecord(r) ==
    /\ procs[r].pc = "record"
    /\ db' = _record_access(db, RaceKey)
    /\ LET dec == Decode("embedding", procs[r].cached) IN
       procs' = [procs EXCEPT ![r].pc = "done",
                              ![r].ret = IF dec.exc THEN None ELSE dec.val]
    /\ UnchangedByRequests

InitRace ==
    /\ backend = "up"
    /\ redis = TRUE
    /\ enable_adaptive_ttl = TRUE
    /\ db \in {EmptyMap}
              \cup {[a \in {AccessKey(RaceKey)} |-> CounterEntry(c)] : c \in SeedCounts}
    /\ stats = ZeroStats
    /\ now = 0
    /\ ops = 0
    /\ last = Idle
    /\ written = EmptyMap
    /\ calls = [l \in Levels |-> 0]
    /\ returned = [l \in Levels |-> 0]
    /\ InitIndexer
    /\ InitFusion
    /\ procs = [p \in Writers \cup Readers |-> NewRequest(p)]

NextRace ==
    \/ \E w \in Writers : WriterTtl(w)
    \/ \E w \in Writers : WriterSetex(w)
    \/ \E r \in Readers : ReaderGet(r)
    \/ \E r \in Readers : ReaderRecord(r)
    \/ Advance

SpecRace == InitRace /\ [][NextRace]_vars

----------------------------------------------------------------------------
(* Properties *)

LastKey == KeyOf(last.req)

\* the manager was constructed with a connection and the server answers,
\* at the first attempt or at a re-attempt
Reachable == redis /\ backend # "down"

\* C1: the result list a query returns is the one a cache-less run of the
\* same request returns, whatever earlier queries left in the caches
\* (stated as written; the code violates it)
C1_CacheTransparency ==
    (last.op = "query" /\ last.req[1] # "")
        => last.ret.results = Cacheless(last.req[1], last.req[2], last.req[3]).results

\* C2: a response-cache get returns a value only if that value was put
\* under the same (query, technology_filter, top_k)
\* (stated as written; the code violates it)
C2_KeyDiscrimination ==
    (last.op = "get" /\ last.req[1] = "response" /\ last.ret # None)
        => written[LastKey].req = last.req

\* C3: a get never raises and returns absent when the key is absent, the
\* backend is unreachable (since construction or now) or the stored bytes
\* are not in the manager's format; a put with the backend unreachable
\* returns normally
C3_FailuresAreMisses ==
    /\ last.op = "get" =>
          /\ ~last.raised
          /\ (\/ LastKey \notin DOMAIN db
              \/ ~Reachable
              \/ written[LastKey].legacy) => last.ret = None
    /\ (last.op = "put" /\ ~Reachable) => (~last.raised /\ last.ret = None)

\* a get met bytes written in the earlier manager's format and reported a miss
C3_Witness ==
    /\ last.op = "get"
    /\ Reachable
    /\ LastKey \in DOMAIN db
    /\ written[LastKey].legacy
    /\ last.ret = None

\* C4: per level, hits is the number of gets that returned a value and
\* misses the number of the other gets
\* (stated as written; the code violates it)
C4_StatsAccounting ==
    \A l \in Levels :
        /\ stats[l \o "_hits"] = returned[l]
        /\ stats[l \o "_misses"] = calls[l] - returned[l]

\* C5: with the backend available, a get returns the value of the put that
\* wrote the live entry of its key, compressed or not
C5_RoundTrip ==
    (/\ last.op = "get"
     /\ Reachable
     /\ LastKey \in DOMAIN written
     /\ ~written[LastKey].legacy)
        => last.ret = written[LastKey].value

\* a get returned the value of an entry that is stored compressed
C5_Witness ==
    /\ last.op = "get"
    /\ LastKey \in DOMAIN db
    /\ FirstByte(db[LastKey].data) = 1
    /\ last.ret # None
    /\ last.ret = written[LastKey].value

\* the TTL the adaptive rule prescribes for a put of key at this moment
RuleTtl(base, key) ==
    LET count == CounterOf(db, AccessKey(key)) IN
    IF ~enable_adaptive_ttl \/ backend # "up" THEN base
    ELSE IF count >= 10 THEN 2 * base
    ELSE IF count >= 5 THEN (3 * base) \div 2
    ELSE base

\* C6: a put stores its entry with TTL 2 x base when the key's access
\* counter is at least 10, 1.5 x base when it is 5 to 9, and base when it
\* is lower or absent, when adaptive TTL is off, or when the counter cannot
\* be read
C6_AdaptiveTtl ==
    (last.op = "put" /\ Reachable)
        => /\ LastKey \in DOMAIN db
           /\ db[LastKey].expire_at = now + RuleTtl(BaseTtl(last.req[1]), LastKey)

\* a put stored an entry for a key with ten or more accesses, at twice the base
C6_Witness ==
    /\ last.op = "put"
    /\ Reachable
    /\ enable_adaptive_ttl
    /\ CounterOf(db, AccessKey(LastKey)) >= 10
    /\ db[LastKey].expire_at = now + 2 * BaseTtl(last.req[1])

\* the size of the encoded payload of v, and of its compressed form
EncodedLen(v) == BytesLen(_serialize(v).val)

CompressedLen(v) == BytesLen(Lz4Compress(_serialize(v).val))

\* C7: every entry a put stored starts with a flag byte, which is 1 with the
\* compressed payload behind it exactly when the encoded payload is longer
\* than the threshold and compresses strictly smaller, and 0 with the raw
\* encoded payload behind it otherwise
\* (stated as written; the code violates it)
C7_ConditionalCompression ==
    \A key \in DOMAIN written :
        ~written[key].legacy =>
            LET data == db[key].data
                v == written[key].value
                shrink == /\ EncodedLen(v) > compression_threshold
                          /\ CompressedLen(v) < EncodedLen(v)
            IN /\ data[1].k = "byte"
               /\ data[1].v = (IF shrink THEN 1 ELSE 0)
               /\ Tail(data) = (IF shrink THEN Lz4Compress(_serialize(v).val)
                                ELSE _serialize(v).val)

\* C8: a clear_cache(level) that reaches the backend removes every entry of
\* that level and leaves every entry of the other levels with the same
\* bytes and expiry
C8_ClearIsolation ==
    [][(/\ last'.op = "clear"
        /\ last'.req[1] \in Levels
        /\ ~last'.raised
        /\ redis)
          => \A key \in DOMAIN written :
                IF written[key].req[1] = last'.req[1]
                THEN key \notin DOMAIN db'
                ELSE key \in DOMAIN db' /\ db'[key] = db[key]]_vars

\* the embedding level was cleared while retrieval and response entries exist
C8_Witness ==
    /\ last.op = "clear"
    /\ last.req[1] = "embedding"
    /\ ~last.raised
    /\ redis
    /\ RedisKeys(db, "emb:") = {}
    /\ \E key \in DOMAIN written : written[key].req[1] = "retrieval"
    /\ \E key \in DOMAIN written : written[key].req[1] = "response"

\* C9: after cache_batch_embeddings, with the backend up, every entry of the
\* batch that can be encoded is stored, whatever happened to the others
\* (stated as written; the code violates it)
C9_BatchPartialFailure ==
    (last.op = "batch" /\ redis /\ backend = "up")
        => \A i \in 1..Len(last.arg) :
              ~_serialize(last.arg[i][2]).exc
                  => /\ EmbKey(last.arg[i][1]) \in DOMAIN written
                     /\ written[EmbKey(last.arg[i][1])].value = last.arg[i][2]

\* C10: no public operation of a manager constructed with a connection
\* raises to its caller
\* (stated as written; the code violates it)
C10_NoRaise == redis => ~last.raised


----------------------------------------------------------------------------
(* Properties of the keyword index *)

SearchQuery == last.req[1]

SearchTopK == last.req[2]

SearchFilter == last.req[3]

Returned == last.op = "search" /\ ~last.raised

\* C11: a search on an indexer that holds no index raises the
\* index-not-ready error, for every query, with or without tokens, and
\* returns no list
C11_IndexNotReady ==
    (last.op = "search" /\ indexer.bm25_index = None)
        => last.raised /\ last.ret = Error("ValueError")

\* a query without tokens met an indexer without index and got the error
C11_Witness ==
    /\ last.op = "search"
    /\ indexer.bm25_index = None
    /\ tokenize(SearchQuery) = <<>>
    /\ last.raised
    /\ last.ret = Error("ValueError")

\* the position in the indexer's lists of the document a result names
IndexOf(doc_id) == CHOOSE idx \in 1..Len(indexer.doc_ids) : indexer.doc_ids[idx] = doc_id

TechnologyOf(idx) == DictGet(indexer.metadatas[idx], "technology", NoFilter)

\* C12: a search with a technology filter returns only documents whose
\* technology metadata equals the filter, and not more results than the
\* search for the same query and top_k without filter
C12_FilterCorrectness ==
    (Returned /\ Truthy(SearchFilter))
        => /\ \A j \in 1..Len(last.ret) :
                TechnologyOf(IndexOf(last.ret[j].doc_id)) = SearchFilter
           /\ Len(last.ret) <= Len(search(indexer, SearchQuery, SearchTopK, NoFilter).ret)

\* a filtered search returned some, and fewer, documents than the unfiltered one
C12_Witness ==
    /\ Returned
    /\ Truthy(SearchFilter)
    /\ Len(last.ret) > 0
    /\ Len(last.ret) < Len(search(indexer, SearchQuery, SearchTopK, NoFilter).ret)

\* the score of each document for the last query, and the documents that
\* score above zero and pass the filter of the last search
LastScores == get_scores(indexer.bm25_index, tokenize(SearchQuery))

Eligible ==
    {idx \in 1..Len(LastScores) :
        /\ LastScores[idx] > 0
        /\ Truthy(SearchFilter) => TechnologyOf(idx) = SearchFilter}

\* C13: a search returns at most top_k results, each with a score above
\* zero, in non-increasing score order, and no document that passes the
\* filter and was left out scores higher than one that was returned; fewer
\* than top_k are returned only when no other document is eligible
C13_Ranking ==
    Returned =>
        LET res == last.ret
            chosen == {IndexOf(res[j].doc_id) : j \in 1..Len(res)}
        IN /\ Len(res) <= SearchTopK
           /\ \A j \in 1..Len(res) : res[j].bm25_score > 0
           /\ \A j \in 1..Len(res) : res[j].bm25_score = LastScores[IndexOf(res[j].doc_id)]
           /\ \A i, j \in 1..Len(res) : i < j => res[i].bm25_score >= res[j].bm25_score
           /\ Cardinality(chosen) = Len(res)
           /\ chosen \subseteq Eligible
           /\ \A idx \in Eligible \ chosen :
                 /\ Len(res) = SearchTopK
                 /\ \A j \in 1..Len(res) : LastScores[idx] <= res[j].bm25_score

\* the best document of the filtered technology was returned although it is
\* not the first of the unfiltered ranking
C13_Witness ==
    /\ Returned
    /\ Truthy(SearchFilter)
    /\ SearchTopK = 1
    /\ Len(last.ret) = 1
    /\ search(indexer, SearchQuery, 1, NoFilter).ret[1].doc_id # last.ret[1].doc_id


\* C20: with an index loaded, a query without tokens gets an empty list and
\* no error, and what the caller gets differs from what it gets for a query
\* with tokens that matched no document
\* (stated as written; the code violates it)
C20_ZeroTokenQuery ==
    (/\ last.op = "search"
     /\ indexer.bm25_index # None
     /\ tokenize(SearchQuery) = <<>>)
        => /\ ~last.raised
           /\ last.ret = <<>>
           /\ \A q \in BmQueries :
                tokenize(q) # <<>> =>
                    LET o == search(indexer, q, SearchTopK, SearchFilter)
                    IN o.raised \/ o.ret # last.ret


----------------------------------------------------------------------------
(* Properties of the fusion engine *)

Fused == last.op = "fuse"

\* the arguments of the last call, as they were passed
Args == last.req

ArgWeights == Normalized(Args.weights[1], Args.weights[2])

ArgUnit == RankProduct(Args.k, Max(Len(Args.semantic_results), Len(Args.keyword_results)))

ContentsOf(results) == {results[i]["content"] : i \in 1..Len(results)}

\* the positions of a list that hold a given content, or a given content hash
PositionsOf(results, content) ==
    {i \in 1..Len(results) : results[i]["content"] = content}

PositionsOfKey(results, key) ==
    {i \in 1..Len(results) : hash(results[i]["content"]) = key}

First(S) == CHOOSE i \in S : \A j \in S : i <= j

Final(S) == CHOOSE i \in S : \A j \in S : i >= j

RECURSIVE SumOfRanks(_, _, _)
SumOfRanks(S, w, n) ==
    IF n = 0 THEN 0
    ELSE (IF n \in S THEN w * (ArgUnit \div (Args.k + n)) ELSE 0) + SumOfRanks(S, w, n - 1)

\* w / (k + r) for the rank r of a content in a list, 0 when it is not in it
RankShare(results, content, w) ==
    IF PositionsOf(results, content) = {} THEN 0
    ELSE w * (ArgUnit \div (Args.k + First(PositionsOf(results, content))))

SpecExample ==
    [semantic_results |-> << [content |-> "A", similarity_score |-> 90],
                             [content |-> "B", similarity_score |-> 80] >>,
     keyword_results |-> << [content |-> "B", bm25_score |-> 10, doc_id |-> "d1"],
                            [content |-> "C", bm25_score |-> 5, doc_id |-> "d2"] >>,
     weights |-> <<6, 4>>,
     k |-> 60]

ExampleOutcome ==
    Args = SpecExample
        => /\ Len(last.ret) = 3
           /\ last.ret[1]["content"] = "B"
           /\ last.ret[2]["content"] = "A"

\* C14 as stated: every returned document has the score w_s / (k + r_s) +
\* w_k / (k + r_k), one term for each list it is in, with r its rank in that
\* list, and in the example B comes first, before A
\* (the code violates it when a list holds a content twice)
C14_AsStated ==
    Fused =>
        /\ \A i \in 1..Len(last.ret) :
              last.arg.accumulated[i] =
                  RankShare(Args.semantic_results, last.ret[i]["content"], ArgWeights.semantic)
                  + RankShare(Args.keyword_results, last.ret[i]["content"], ArgWeights.keyword)
        /\ ExampleOutcome

\* C14: every returned record has the score that is the sum of w / (k + r)
\* over every position r, of either list, that holds a record with its
\* content hash, w being the normalised weight of that list (0.5 / 0.5 when
\* the weights sum to zero); rrf_score is that sum rounded to six decimals;
\* a record found in both lists scores no lower than its share of either
\* list; in the example the output has 3 documents and B is first, before A
C14_RrfScore ==
    Fused =>
        /\ last.arg.den = ArgWeights.total * ArgUnit
        /\ \A i \in 1..Len(last.ret) :
              LET key == hash(last.ret[i]["content"])
                  s == SumOfRanks(PositionsOfKey(Args.semantic_results, key),
                                  ArgWeights.semantic, Len(Args.semantic_results))
                  kw == SumOfRanks(PositionsOfKey(Args.keyword_results, key),
                                   ArgWeights.keyword, Len(Args.keyword_results))
              IN /\ last.arg.accumulated[i] = s + kw
                 /\ last.arg.accumulated[i] >= s
                 /\ last.arg.accumulated[i] >= kw
                 /\ last.ret[i]["rrf_score"] = Round6(s + kw, last.arg.den)
        /\ ExampleOutcome

\* the example of the specification was fused: B 0.016235, A 0.009836, C 0.006452
C14_Witness ==
    /\ Fused
    /\ Args = SpecExample
    /\ last.ret[1]["content"] = "B"
    /\ last.ret[1]["rrf_score"] = 16235
    /\ last.ret[2]["rrf_score"] = 9836
    /\ last.ret[3]["rrf_score"] = 6452


\* every input record in the order fuse reads them: semantic list first
AllResults == Args.semantic_results \o Args.keyword_results

FirstSeen(content) == First(PositionsOfKey(AllResults, hash(content)))

\* C15: the returned list is in non-increasing order of accumulated score,
\* and of two records with the same accumulated score the one whose content
\* fuse met first comes first, the semantic list being read before the
\* keyword list
C15_OrderAndTieBreak ==
    Fused =>
        \A i, j \in 1..Len(last.ret) :
            i < j =>
                /\ last.arg.accumulated[i] >= last.arg.accumulated[j]
                /\ last.ret[i]["rrf_score"] >= last.ret[j]["rrf_score"]
                /\ last.arg.accumulated[i] = last.arg.accumulated[j]
                      => FirstSeen(last.ret[i]["content"]) < FirstSeen(last.ret[j]["content"])

\* a semantic-only and a keyword-only record tied and the semantic one is first
C15_Witness ==
    /\ Fused
    /\ Len(last.ret) >= 2
    /\ last.arg.accumulated[1] = last.arg.accumulated[2]
    /\ last.ret[1]["appeared_in"] = <<"semantic">>
    /\ last.ret[2]["appeared_in"] = <<"keyword">>

InputContents == ContentsOf(Args.semantic_results) \cup ContentsOf(Args.keyword_results)

InputKeys == {hash(c) : c \in InputContents}

\* different contents of the call have different hashes
NoCollision == Cardinality(InputKeys) = Cardinality(InputContents)

\* C16 as stated: the returned list has exactly one record for each content
\* of the two input lists
\* (the code violates it when two different contents have the same hash)
C16_AsStated ==
    Fused =>
        /\ {last.ret[i]["content"] : i \in 1..Len(last.ret)} = InputContents
        /\ Len(last.ret) = Cardinality(InputContents)

\* C16: the returned list has exactly one record for each content hash of
\* the two input lists, with the content of the first input record of that
\* hash; so when different contents have different hashes, no content is
\* twice in it and none is missing
C16_Deduplication ==
    Fused =>
        /\ {hash(last.ret[i]["content"]) : i \in 1..Len(last.ret)} = InputKeys
        /\ Len(last.ret) = Cardinality(InputKeys)
        /\ \A i \in 1..Len(last.ret) :
              last.ret[i]["content"] = AllResults[FirstSeen(last.ret[i]["content"])]["content"]
        /\ NoCollision =>
              /\ {last.ret[i]["content"] : i \in 1..Len(last.ret)} = InputContents
              /\ Len(last.ret) = Cardinality(InputContents)

\* a content that is twice in the semantic list and again in the keyword
\* list came out once
C16_Witness ==
    /\ Fused
    /\ NoCollision
    /\ \E c \in InputContents :
          /\ Cardinality(PositionsOf(Args.semantic_results, c)) = 2
          /\ PositionsOf(Args.keyword_results, c) # {}
          /\ Cardinality({i \in 1..Len(last.ret) : last.ret[i]["content"] = c}) = 1

\* result.get("similarity_score", result.get("distance", 0)), line 74
RawSemanticScore(result) ==
    DictGet(result, "similarity_score", DictGet(result, "distance", 0))

InList(name, i) ==
    \E j \in 1..Len(last.ret[i]["appeared_in"]) : last.ret[i]["appeared_in"][j] = name

\* C17 as stated: a content of both lists has a record with a rank and raw
\* score of it in each list, and appeared_in names a list exactly when the
\* content of the record is in that list
\* (the code violates it when two different contents have the same hash)
C17_AsStated ==
    Fused =>
        /\ \A c \in ContentsOf(Args.semantic_results) \cap ContentsOf(Args.keyword_results) :
              \E i \in 1..Len(last.ret) :
                 LET doc == last.ret[i] IN
                 /\ doc["content"] = c
                 /\ {"semantic_rank", "keyword_rank", "semantic_score", "bm25_score"}
                        \subseteq DOMAIN doc
                 /\ doc["semantic_rank"] \in PositionsOf(Args.semantic_results, c)
                 /\ doc["keyword_rank"] \in PositionsOf(Args.keyword_results, c)
                 /\ doc["semantic_score"] =
                        RawSemanticScore(Args.semantic_results[doc["semantic_rank"]])
                 /\ doc["bm25_score"] = Args.keyword_results[doc["keyword_rank"]]["bm25_score"]
        /\ \A i \in 1..Len(last.ret) :
              /\ InList("semantic", i)
                    <=> last.ret[i]["content"] \in ContentsOf(Args.semantic_results)
              /\ InList("keyword", i)
                    <=> last.ret[i]["content"] \in ContentsOf(Args.keyword_results)

\* C17: a returned record carries, when its content hash is in the semantic
\* list, the rank and the raw similarity score (or distance) of the first
\* semantic record of that hash, and when it is in the keyword list, the rank
\* and the lexical score of the last keyword record of that hash; appeared_in
\* names a list exactly when the list holds a record of that hash
C17_MergedMetadata ==
    Fused =>
        \A i \in 1..Len(last.ret) :
            LET doc == last.ret[i]
                key == hash(doc["content"])
                sem == PositionsOfKey(Args.semantic_results, key)
                kw == PositionsOfKey(Args.keyword_results, key)
            IN /\ InList("semantic", i) <=> sem # {}
               /\ InList("keyword", i) <=> kw # {}
               /\ "semantic_rank" \in DOMAIN doc <=> sem # {}
               /\ "keyword_rank" \in DOMAIN doc <=> kw # {}
               /\ sem # {} =>
                    /\ doc["semantic_rank"] = First(sem)
                    /\ doc["semantic_score"] = RawSemanticScore(Args.semantic_results[First(sem)])
               /\ kw # {} =>
                    /\ doc["keyword_rank"] = Final(kw)
                    /\ doc["bm25_score"] = Args.keyword_results[Final(kw)]["bm25_score"]

\* a content of both lists came out with both ranks and both raw scores
C17_Witness ==
    /\ Fused
    /\ NoCollision
    /\ \E i \in 1..Len(last.ret) :
          /\ last.ret[i]["appeared_in"] = <<"semantic", "keyword">>
          /\ last.ret[i]["semantic_rank"] = 2
          /\ last.ret[i]["keyword_rank"] = 1
          /\ last.ret[i]["semantic_score"] = 80
          /\ last.ret[i]["bm25_score"] = 10

\* C18: a call of fuse leaves its two input lists and their records as they
\* were, and a second call with the same arguments returns the same list,
\* with the same order, scores and metadata
C18_PureDeterministic ==
    Fused =>
        /\ inputs = Args
        /\ (previous.op = "fuse" /\ previous.req = Args)
              => previous.ret = last.ret /\ previous.arg = last.arg

\* fuse was called twice on lists that share a content
C18_Witness ==
    /\ Fused
    /\ previous.op = "fuse"
    /\ previous.req = Args
    /\ Len(last.ret) >= 2
    /\ \E i \in 1..Len(last.ret) : last.ret[i]["appeared_in"] = <<"semantic", "keyword">>


----------------------------------------------------------------------------
(* Properties of the query handler over the response cache *)

\* the response-cache key of the query the step ends with
QueryKey(call) == RespKey(call.req[1], call.req[3], Min(Max(call.req[2], 1), 20))

CachedTotal(d, key) == JsonLoads(d[key].data).val.total_found

\* C19: with the cache answering, a query that finds a live response entry
\* under its (query, filter, clamped top_k) is answered from it, with
\* cache_hit = 'response_cache' and the total_found of the entry, and every
\* query that returns results leaves such an entry with the total_found it
\* returned; so the repeat of a query is served from the cache with the same
\* total_found until the entry expires or is cleared
C19_RepeatQuery ==
    [][(/\ last'.op = "query"
        /\ last'.req[1] # ""
        /\ Reachable)
          => LET key == QueryKey(last') IN
             /\ key \in DOMAIN db =>
                   /\ "cache_hit" \in DOMAIN last'.ret
                   /\ last'.ret.cache_hit = "response_cache"
                   /\ last'.ret.total_found = CachedTotal(db, key)
             /\ key \notin DOMAIN db => "cache_hit" \notin DOMAIN last'.ret
             /\ key \in DOMAIN db'
             /\ CachedTotal(db', key) = last'.ret.total_found]_vars

\* the same query was made twice and the second answer came from the cache
C19_Witness ==
    /\ last.op = "query"
    /\ Reachable
    /\ ops = 2
    /\ "cache_hit" \in DOMAIN last.ret
    /\ last.ret.cache_hit = "response_cache"
    /\ last.ret.total_found = 2
    /\ written[QueryKey(last)].req = <<"response", last.req[1], last.req[3], last.req[2]>>

----------------------------------------------------------------------------
(* The order of the calls of one query *)

\* the calls of the last query, in order
Trace == last.arg

Queried == last.op = "query" /\ "error" \notin DOMAIN last.ret

\* positions of the trace at which call is made
CallsOf(call) == {i \in 1..Len(Trace) : Trace[i].call = call}

\* call is made at position i only after the cache named before it missed
OnlyAfterMiss(call, before) ==
    \A i \in CallsOf(call) :
        \E j \in 1..(i - 1) : Trace[j] = Event(before, "miss")

----------------------------------------------------------------------------
(* Retry *)

Retried == last.op = "retry"

\* the outcomes of the invocations the configured attempts allow
Allowed == SubSeq(last.req.operation, 1, last.req.retry_attempts)

\* the first invocation that does not end in a transient error, or 0
FirstFinal ==
    LET S == {i \in 1..Len(Allowed) : Allowed[i] \notin Transient}
    IN IF S = {} THEN 0 ELSE CHOOSE i \in S : \A j \in S : i <= j

\* C22: one call of _retry_operation invokes the operation at most
\* retry_attempts times, stops at the first success, invokes again only
\* after a timeout or connection error, raises that error when the attempts
\* are used up, and lets any other error through after a single attempt
C22_BoundedRetry ==
    Retried =>
        LET o == last.ret
            n == last.req.retry_attempts
        IN /\ o.invoked <= n
           /\ \A i \in 1..(o.invoked - 1) : Allowed[i] \in Transient
           /\ FirstFinal # 0 =>
                 /\ o.invoked = FirstFinal
                 /\ o.result = Allowed[FirstFinal]
                 /\ o.raised = (Allowed[FirstFinal] # "ok")
           /\ (FirstFinal = 0 /\ n > 0) =>
                 /\ o.invoked = n
                 /\ o.raised
                 /\ o.result = Allowed[n]
           /\ (n > 0 /\ Allowed[1] = "error") => (o.invoked = 1 /\ o.raised)
           /\ Len(o.slept) = (IF o.invoked = 0 THEN 0 ELSE o.invoked - 1)

\* a call that succeeded at its third invocation after a timeout and a
\* connection error
C22_Witness ==
    /\ Retried
    /\ last.ret.invoked = 3
    /\ last.ret.result = "ok"
    /\ ~last.ret.raised
    /\ {Allowed[1], Allowed[2]} = Transient

\* C23: the delays between the attempts of one call are 0.1 s, 0.2 s,
\* 0.4 s, ...: the first is 100 ms and each is twice the one before
\* (stated as written; the code violates it from the third delay on)
C23_BackoffSchedule ==
    Retried =>
        LET slept == last.ret.slept IN
        /\ Len(slept) >= 1 => slept[1] = 100
        /\ \A i \in 1..(Len(slept) - 1) : slept[i + 1] = 2 * slept[i]

----------------------------------------------------------------------------
(* Access counters *)

\* the call just made is a put that stored its entry
PutStored ==
    /\ last'.op = "put"
    /\ stats'.total_operations = stats.total_operations + 1
    /\ KeyOf(last'.req) \in DOMAIN db'

\* C24: every successful put counts as an access of the key it writes: the
\* key's access counter is one higher after the put than before
\* (stated as written; the code violates it)
C24_PutUpdatesCounter ==
    [][(enable_adaptive_ttl /\ PutStored)
          => CounterOf(db', AccessKey(KeyOf(last'.req)))
                = CounterOf(db, AccessKey(KeyOf(last'.req))) + 1]_vars

CounterKeys(d) == {k \in DOMAIN d : HasPrefix(k, "access_count:")}

\* the cache entries proper
EntryKeys(d) == DOMAIN d \ CounterKeys(d)

\* C25: a counter is reset one day after its first recorded access: a new
\* counter expires access_window after the access that created it, and no
\* later access moves the expiry of a counter that exists
\* (stated as written; the code violates it)
C25_CounterResetsDaily ==
    [][\A a \in CounterKeys(db') :
          IF a \in DOMAIN db
          THEN db'[a].expire_at = db[a].expire_at
          ELSE db'[a].expire_at = now' + access_window]_vars


----------------------------------------------------------------------------
(* Entry life cycle *)

\* the TTLs a put can give an entry of the level of req
TtlsOf(req) ==
    {BaseTtl(req[1]), (BaseTtl(req[1]) * 3) \div 2, BaseTtl(req[1]) * 2}

\* C26: a key is absent or holds one value with one expiry; the expiry is
\* the time of the put that wrote the entry plus its TTL, a get changes no
\* entry, and no entry is present at its expiry or later, so a get at that
\* time finds the key absent unless it was put again
C26_EntryLifeCycle ==
    [][/\ \A k \in EntryKeys(db') : db'[k].expire_at > now'
       /\ last'.op = "get" =>
             /\ \A k \in EntryKeys(db) : k \in DOMAIN db' /\ db'[k] = db[k]
             /\ EntryKeys(db') = EntryKeys(db)
             /\ KeyOf(last'.req) \notin DOMAIN db => last'.ret = None
       /\ \A k \in EntryKeys(db') :
             (k \notin DOMAIN db \/ db'[k] # db[k]) =>
                 /\ last'.op = "put"
                 /\ KeyOf(last'.req) = k
                 /\ db'[k].expire_at - now' \in TtlsOf(last'.req)]_vars

\* a get that hit, half an hour after the put, an entry that still expires
\* one base TTL after the put
C26_Witness ==
    /\ last.op = "get"
    /\ last.req = TtlEmb
    /\ last.ret # None
    /\ now = embedding_ttl \div 2
    /\ db[LastKey].expire_at = embedding_ttl


----------------------------------------------------------------------------
(* Latency statistic *)

\* C27: every get call and every put call updates the latency statistic
\* once, so total_operations counts the get and put calls made
\* (stated as written; the code violates it)
C27_LatencyCoverage ==
    [][last'.op \in {"get", "put"}
          => stats'.total_operations = stats.total_operations + 1]_vars


----------------------------------------------------------------------------
(* Availability *)

\* the call just made is a get or a put of the cache manager
GetOrPut == last'.op \in {"get", "put"}

\* C29: whether a manager uses the backend is decided when it is
\* constructed.  A manager constructed without connection never gets one:
\* its gets return nothing and its calls leave the keyspace and the
\* statistics alone, also when the server is back and holds the key.  A
\* manager constructed with a connection keeps it through backend failures:
\* each get asks the backend again and is counted as a hit or a miss, and a
\* put of an encodable value is stored whenever the server answers.
C29_AvailabilityAtConstruction ==
    [][/\ redis' = redis
       /\ (GetOrPut /\ ~redis) =>
             /\ last'.ret = None
             /\ db' = db
             /\ stats' = stats
       /\ (last'.op = "get" /\ redis) =>
             /\ stats' # stats
             /\ (backend = "down") => last'.ret = None
             /\ (backend # "down" /\ last'.ret = None) =>
                   \/ KeyOf(last'.req) \notin DOMAIN db
                   \/ Decode(last'.req[1], db[KeyOf(last'.req)].data).exc
       /\ (last'.op = "put" /\ redis /\ backend # "down"
             /\ ~Encode(last'.req[1], last'.arg).exc) =>
             /\ KeyOf(last'.req) \in DOMAIN db'
             /\ written'[KeyOf(last'.req)].value = last'.arg]_vars

\* a manager constructed while the server was down is asked for a key that
\* the server, up again, holds
C29_Witness ==
    /\ ~redis
    /\ backend = "up"
    /\ last.op = "get"
    /\ LastKey \in DOMAIN db
    /\ last.ret = None


----------------------------------------------------------------------------
(* Keyword-index consistency *)

\* C30: the three lists of the indexer have the same length and, when there
\* is an index, they are the corpus it was built from, so every score that
\* search reads belongs to a document of the lists
\* (stated as written; the code violates it)
C30_IndexConsistency ==
    /\ Len(indexer.documents) = Len(indexer.metadatas)
    /\ Len(indexer.documents) = Len(indexer.doc_ids)
    /\ indexer.bm25_index # None =>
          indexer.bm25_index.corpus = TokenizedCorpus(indexer.documents)
    /\ (last.op = "search" /\ last.raised) => last.ret # Error("IndexError")


----------------------------------------------------------------------------
(* Concurrent puts *)

\* the entry holds what writer w sent in its SETEX, all of it
EntryOf(w) ==
    /\ procs[w].pc = "done"
    /\ db[RaceKey].data = Encode("embedding", RaceValue(w)).val
    /\ db[RaceKey].data = procs[w].data
    /\ db[RaceKey].expire_at = procs[w].at + procs[w].ttl

\* C28: while two requests put values for the same key and a third one
\* reads it, the key is absent or holds the flag byte, body and TTL one
\* writer sent, those of the writer whose SETEX came last; the reader gets
\* nothing or the whole value of one of the writers
C28_LastWriterWins ==
    /\ procs # <<>> =>
          /\ RaceKey \in DOMAIN db <=> Stored > 0
          /\ RaceKey \in DOMAIN db =>
                \E w \in Writers : EntryOf(w) /\ procs[w].seq = Stored
          /\ \A r \in Readers :
                /\ procs[r].ret \in {None} \cup {RaceValue(w) : w \in Writers}
                /\ procs[r].pc = "record" =>
                      \E w \in Writers : procs[r].cached = procs[w].data

\* both writers have stored, with different flag bytes and different TTLs,
\* the reader has read a value in between
C28_Witness ==
    /\ procs # <<>>
    /\ Stored = 2
    /\ procs["w1"].ttl # procs["w2"].ttl
    /\ procs["w1"].data[1] # procs["w2"].data[1]
    /\ procs["r"].pc = "done"
    /\ procs["r"].ret # None

============================================================================
